---- MODULE Spec2Model ----
(***************************************************************************)
(* Frame triage of the PPE frame-extraction pipeline.                      *)
(*                                                                         *)
(* The model covers the two triage engines (human_detector.py and          *)
(* dataset_analyzer.py), their restore operations and the batch methods of *)
(* GroqVisionClient (groq_client.py).  A directory is a set of file names; *)
(* a file name is a sequence of one-character strings, so that the         *)
(* extension tests (str.lower, str.endswith) and sorted() are computed on  *)
(* the characters as the code computes them.                               *)
(***************************************************************************)
EXTENDS Integers, Sequences, FiniteSets, TLC

(***************************************************************************)
(* Bounds of the model.                                                    *)
(***************************************************************************)
\* files a directory of the multi-run specification may hold
MaxFiles == 3
\* triage / restore runs one behaviour of the multi-run specification starts
MaxRuns == 2
\* frames of the single-run, multi-batch specification
BatchFrames == 6
\* frames of the rotation specification (three batches of 5, 5, 2)
RotFrames == 12
\* longest path list handed to a batch method directly (BATCH_SIZE + 2)
MaxPaths == 7
\* videos of one extraction, and frames one video can be read for
MaxVideos == 3
MaxReads == 3
\* distinct timestamps, and underscore-separated segments of a file name
MaxStamps == 2
MaxSegments == 3
\* most decimal digits of a frame index whose name is formatted
MaxDigits == 6
\* calls made on the two client instances together
MaxCalls == 6
\* frames written by an earlier extraction; videos of a later extraction
MaxPrior == 3
MaxAgain == 2
\* files of the folder given to the rename tool
MaxClips == 3

(***************************************************************************)
(* Program constants.                                                      *)
(***************************************************************************)
\* config.py: BATCH_SIZE = 5
BATCH_SIZE == 5
\* config.py: FRAME_INTERVAL_SECONDS = 0.2, in hundredths of a second
FRAME_INTERVAL_SECONDS == 20
\* config.py: MODELS has two entries; model_names = list(MODELS.keys())
model_names == <<"scout", "maverick">>

\* the two triage policies: human_detector.py and dataset_analyzer.py
Policies == {"human", "suitable"}
\* the quarantine subfolder each policy uses
QuarantineName(p) == IF p = "human" THEN "no-human" ELSE "not-suitable"

(***************************************************************************)
(* Strings as sequences of characters.                                     *)
(***************************************************************************)
Digits == <<"0", "1", "2", "3", "4", "5", "6", "7", "8", "9">>
UpperCase == <<"A", "B", "C", "D", "E", "F", "G", "H", "I", "J", "K", "L", "M",
               "N", "O", "P", "Q", "R", "S", "T", "U", "V", "W", "X", "Y", "Z">>
LowerCase == <<"a", "b", "c", "d", "e", "f", "g", "h", "i", "j", "k", "l", "m",
               "n", "o", "p", "q", "r", "s", "t", "u", "v", "w", "x", "y", "z">>

IndexIn(seq, c) == CHOOSE i \in 1..Len(seq) : seq[i] = c
IsIn(seq, c) == \E i \in 1..Len(seq) : seq[i] = c

\* code point of a character, as Python compares strings
Ord(c) ==
    IF IsIn(Digits, c) THEN 47 + IndexIn(Digits, c)
    ELSE IF IsIn(UpperCase, c) THEN 64 + IndexIn(UpperCase, c)
    ELSE IF IsIn(LowerCase, c) THEN 96 + IndexIn(LowerCase, c)
    ELSE IF c = "." THEN 46
    ELSE IF c = "-" THEN 45
    ELSE IF c = "_" THEN 95
    ELSE 32

\* str.lower()
LowerChar(c) == IF IsIn(UpperCase, c) THEN LowerCase[IndexIn(UpperCase, c)] ELSE c
lower(s) == [i \in 1..Len(s) |-> LowerChar(s[i])]

\* str.endswith(suffix)
EndsWithOne(s, suffix) ==
    /\ Len(suffix) <= Len(s)
    /\ SubSeq(s, Len(s) - Len(suffix) + 1, Len(s)) = suffix
\* str.endswith(tuple of suffixes)
endswith(s, suffixes) == \E suffix \in suffixes : EndsWithOne(s, suffix)

\* the tuple ('.jpg', '.jpeg', '.png') of both engines
ImageSuffixes == { <<".", "j", "p", "g">>,
                   <<".", "j", "p", "e", "g">>,
                   <<".", "p", "n", "g">> }

\* a < b for Python strings (lexicographic by code point)
RECURSIVE StrLess(_, _)
StrLess(a, b) ==
    IF b = <<>> THEN FALSE
    ELSE IF a = <<>> THEN TRUE
    ELSE IF Ord(Head(a)) # Ord(Head(b)) THEN Ord(Head(a)) < Ord(Head(b))
    ELSE StrLess(Tail(a), Tail(b))

\* sorted(S) for a set of distinct strings
RECURSIVE sorted(_)
sorted(S) ==
    IF S = {} THEN <<>>
    ELSE LET m == CHOOSE x \in S : \A y \in S \ {x} : StrLess(x, y)
         IN  <<m>> \o sorted(S \ {m})

Min(a, b) == IF a <= b THEN a ELSE b
SeqToSet(s) == {s[i] : i \in 1..Len(s)}

(***************************************************************************)
(* File names of the modelled directories.                                 *)
(***************************************************************************)
Pad2(i) == <<Digits[(i \div 10) + 1], Digits[(i % 10) + 1]>>

MixedExts == << <<".", "j", "p", "g">>,
                <<".", "J", "P", "G">>,
                <<".", "t", "x", "t">>,
                <<".", "p", "n", "g">>,
                <<".", "J", "p", "e", "g">>,
                <<".", "j", "p", "e", "g">> >>

\* "01.jpg", "02.JPG", "03.txt", "04.png", ...
MixedName(i) == Pad2(i) \o MixedExts[((i - 1) % Len(MixedExts)) + 1]
MixedNames == {MixedName(i) : i \in 1..MaxFiles}

\* "01.jpg", "02.jpg", ... : frames as the extractor names them (all .jpg)
FrameName(i) == Pad2(i) \o <<".", "j", "p", "g">>
FrameNames(n) == {FrameName(i) : i \in 1..n}

(***************************************************************************)
(* State.                                                                  *)
(***************************************************************************)
VARIABLES
    root,            \* names of the regular files directly inside frames_dir
    quar,            \* quar[p]: names inside frames_dir/<quarantine of p>
    quarDir,         \* quarDir[p]: the quarantine subfolder of p exists
    oracle,          \* oracle[p][f]: the remote model's (truthy) answer for image f
    current_model_idx,  \* GroqVisionClient.current_model_idx
    request_count,   \* GroqVisionClient.request_count
    pc,              \* "idle", "call", "handle", "return", "restore"
    run,             \* locals of the running triage / restore call
    report,          \* what the last call returned (or that it raised)
    obs,             \* observations of the running call (history)
    hist,            \* completed calls, oldest first (history)
    dir0,            \* the names frames_dir held at the start (history)
    other_client     \* current_model_idx and request_count of a second GroqVisionClient

vars == <<root, quar, quarDir, oracle, current_model_idx, request_count,
          pc, run, report, obs, hist, dir0, other_client>>

fsVars == <<root, quar, quarDir>>
clientVars == <<current_model_idx, request_count>>

\* GroqVisionClient.__init__: both counters start at 0
NewClient == [current_model_idx |-> 0, request_count |-> 0]

\* the value of result.get("error") when the key is absent
None == "<None>"
\* truthiness of result.get("error"): None and "" are falsy
Truthy(e) == e # None /\ e # ""

NoRun == [op |-> "none"]
NoObs == [root0 |-> {}, quar0 |-> <<>>, quarDir0 |-> <<>>, idx0 |-> 0, count0 |-> 0,
          log |-> <<>>, moveFailed |-> {}, calls |-> <<>>]


(***************************************************************************)
(* GroqVisionClient: the batch methods analyze_images_batch (policy        *)
(* "human") and analyze_dataset_suitability_batch (policy "suitable").     *)
(***************************************************************************)
\* _get_current_model
get_current_model(idx) == model_names[idx + 1]

\* _rotate_model
rotate_model(idx) == (idx + 1) % Len(model_names)

\* the input list passed on whole
Truncate_None(image_paths) == image_paths

\* image_paths[:BATCH_SIZE]
Truncate(image_paths) == SubSeq(image_paths, 1, Min(Len(image_paths), BATCH_SIZE))

\* What the environment does to one batch call:
\*   encode_error  _encode_image raises while the request is built (before the try)
\*   raise         client.chat.completions.create raises; msg is str(e), possibly ""
\*   bad_json      the call returns, json.loads raises JSONDecodeError
\*   bad_shape     the call returns, decoding raises another exception (no choices,
\*                 a response that is no JSON object, an entry that is no object)
\*   ok            the call returns a JSON object whose "images" array has k entries
CallOutcomes ==
    {[kind |-> "encode_error", k |-> 0, msg |-> "No such file"]}
    \cup {[kind |-> "raise", k |-> 0, msg |-> m] : m \in {"", "Connection error."}}
    \cup {[kind |-> "bad_json", k |-> 0, msg |-> "JSON parse error: Expecting value"]}
    \cup {[kind |-> "bad_shape", k |-> 0, msg |-> "object has no attribute 'get'"]}
    \cup {[kind |-> "ok", k |-> k, msg |-> ""] : k \in 0..BATCH_SIZE}

\* the result dict of one image on the success path (entry i exists)
OracleVerdict(path, p, idx) ==
    [image_path |-> path,
     acceptable |-> oracle[p][path],
     confidence |-> IF p = "human" THEN "oracle" ELSE None,
     error      |-> None,
     model_used |-> get_current_model(idx)]

\* a default result dict that rejects the image
FailOpen_Reject(path, p, reason) ==
    [image_path |-> path,
     acceptable |-> FALSE,
     confidence |-> IF p = "human" THEN "0.0" ELSE None,
     error      |-> reason,
     model_used |-> None]

\* the default result dict: has_human / is_suitable True, confidence 0.0 (the
\* suitability method sets no confidence), the reason under "error"
FailOpen(path, p, reason) ==
    [image_path |-> path,
     acceptable |-> TRUE,
     confidence |-> IF p = "human" THEN "0.0" ELSE None,
     error      |-> reason,
     model_used |-> None]

\* a result list that stops where the response array stops
BatchResults_DropMissing(image_paths, p, o, idx) ==
    LET paths == Truncate(image_paths)
    IN  IF o.kind = "ok"
        THEN [i \in 1..Min(Len(paths), o.k) |-> OracleVerdict(paths[i], p, idx)]
        ELSE [i \in 1..Len(paths) |-> FailOpen(paths[i], p, o.msg)]

\* the list a batch method returns for outcome o (o.kind # "encode_error")
BatchResults(image_paths, p, o, idx) ==
    LET paths == Truncate(image_paths)
    IN  IF o.kind = "ok"
        THEN [i \in 1..Len(paths) |->
                 IF i <= o.k THEN OracleVerdict(paths[i], p, idx)
                 ELSE FailOpen(paths[i], p, "Missing in response")]
        ELSE [i \in 1..Len(paths) |-> FailOpen(paths[i], p, o.msg)]

\* the call returned: request_count += 1 and _rotate_model() run
Returned(o) == o.kind \in {"ok", "bad_json", "bad_shape"}

\* the rotation done in a finally clause: after every call
IdxAfterCall_Always(idx, o) == rotate_model(idx)

\* current_model_idx after the batch method
IdxAfterCall(idx, o) == IF Returned(o) THEN rotate_model(idx) ELSE idx

\* a counter of attempts: incremented before the request is sent
CountAfterCall_Attempts(cnt, o) == cnt + 1

\* request_count after the batch method
CountAfterCall(cnt, o) == IF Returned(o) THEN cnt + 1 ELSE cnt

\* how often one batch method invokes client.chat.completions.create: once
\* after the request is built, with no retry loop around it
RemoteCalls(o) == IF o.kind = "encode_error" THEN 0 ELSE 1

(***************************************************************************)
(* Triage: detect_and_organize_frames / analyze_and_organize_frames.       *)
(***************************************************************************)
\* os.path.isfile: every name of root is a regular file; the quarantine
\* subfolders are the only directories and are kept in quarDir
isfile(f) == f \in root

\* the filter of the listing: f.lower().endswith(...) and os.path.isfile(...)
ScanFilter(f) == endswith(lower(f), ImageSuffixes) /\ isfile(f)

\* a recursive listing, which also finds the frames of the quarantine subfolders
ListFrames_Recursive ==
    sorted({f \in root \cup UNION {quar[p] : p \in Policies} :
               endswith(lower(f), ImageSuffixes)})

\* a listing taken from the directory as it was first extracted
ListFrames_Initial == sorted({f \in dir0 : endswith(lower(f), ImageSuffixes)})

\* all_frames = sorted([... for f in os.listdir(frames_dir) if ...])
ListFrames == sorted({f \in root : ScanFilter(f)})

\* the statistics dictionary (with_human / suitable is "accepted",
\* no_human / not_suitable is "rejected")
NewStats(n) == [total |-> n, accepted |-> 0, rejected |-> 0, errors |-> 0,
                moved_files |-> <<>>]
\* the dictionary of the early return, which has no "moved_files"
EmptyStats == [total |-> 0, accepted |-> 0, rejected |-> 0, errors |-> 0]

\* the move attempted without looking at dry_run
MoveAttempted_IgnoreDryRun(r, dry_run) == ~Truthy(r.error) /\ ~r.acceptable

\* the move of one rejected frame is attempted
MoveAttempted(r, dry_run) == ~Truthy(r.error) /\ ~r.acceptable /\ ~dry_run

\* StatsAfter with the `if error:` branch counting the frame as accepted
StatsAfter_ErrorAsAccept(stats, r, dry_run, moveOk) ==
    IF Truthy(r.error) \/ r.acceptable
    THEN [stats EXCEPT !.accepted = @ + 1]
    ELSE IF dry_run
    THEN [stats EXCEPT !.rejected = @ + 1]
    ELSE IF moveOk
    THEN [stats EXCEPT !.rejected = @ + 1,
                       !.moved_files = Append(@, r.image_path)]
    ELSE [stats EXCEPT !.rejected = @ + 1, !.errors = @ + 1]

\* StatsAfter with an except branch that does not count the failed move
StatsAfter_MoveFailureUncounted(stats, r, dry_run, moveOk) ==
    IF Truthy(r.error)
    THEN [stats EXCEPT !.errors = @ + 1]
    ELSE IF r.acceptable
    THEN [stats EXCEPT !.accepted = @ + 1]
    ELSE IF dry_run \/ ~moveOk
    THEN [stats EXCEPT !.rejected = @ + 1]
    ELSE [stats EXCEPT !.rejected = @ + 1,
                       !.moved_files = Append(@, r.image_path)]

\* stats after the loop body for result r; moveOk: shutil.move did not raise
StatsAfter(stats, r, dry_run, moveOk) ==
    IF Truthy(r.error)
    THEN [stats EXCEPT !.errors = @ + 1]
    ELSE IF r.acceptable
    THEN [stats EXCEPT !.accepted = @ + 1]
    ELSE IF dry_run
    THEN [stats EXCEPT !.rejected = @ + 1]
    ELSE IF moveOk
    THEN [stats EXCEPT !.rejected = @ + 1,
                       !.moved_files = Append(@, r.image_path)]
    ELSE [stats EXCEPT !.rejected = @ + 1, !.errors = @ + 1]

\* shutil.move(src, dest) of file f, between the sets of names of two folders:
\* the source folder after the move, and the destination folder after it
\* a move that copies: the file stays in the source folder
MoveOut_Copy(src, f) == src
MoveOut(src, f) == src \ {f}
\* a move that loses the file: it never arrives in the destination folder
MoveIn_Drop(dest, f) == dest
MoveIn(dest, f) == dest \cup {f}

\* The three triage engines: human_detector.py ("human") and
\* dataset_analyzer.py ("suitable") are the two policies; image_analyzer.py
\* ("filter") is a third engine.
Engines == Policies \cup {"filter"}

\* the batch method an engine calls: image_analyzer.py calls
\* groq_client.analyze_images_batch, as human_detector.py does
MethodOf(e) == IF e = "suitable" THEN "suitable" ELSE "human"

\* the key under which a batch method stores its verdict
VerdictKey(method) == IF method = "human" THEN "has_human" ELSE "is_suitable"

\* the key an engine reads with result.get(key, True)
ReadKey(e) == IF e = "human" THEN "has_human" ELSE "is_suitable"

\* the policy whose quarantine subfolder an engine uses ("not-suitable" for
\* image_analyzer.py)
QuarantineOf(e) == IF e = "human" THEN "human" ELSE "suitable"

\* result.get(ReadKey(e), True) on a result of the method engine e called
Read(e, r) == IF VerdictKey(MethodOf(e)) = ReadKey(e) THEN r.acceptable ELSE TRUE

\* the results of one batch call as engine e sees them
EngineResults(e, batch, o, idx) ==
    LET raw == BatchResults(batch, MethodOf(e), o, idx)
    IN  [i \in 1..Len(raw) |-> [raw[i] EXCEPT !.acceptable = Read(e, raw[i])]]

\* a completed call, as remembered in hist
Done(op, p, dry_run, raised, rep, o) ==
    [op |-> op, policy |-> p, dry_run |-> dry_run, raised |-> raised,
     report |-> rep, obs |-> o]

\* lines 36-72: the listing, the early return, ensure_dir, the new stats
TriageStart(p, dry_run) ==
    /\ pc = "idle"
    /\ Len(hist) < MaxRuns
    /\ LET all_frames == ListFrames
           o == [NoObs EXCEPT !.root0 = root, !.quar0 = quar, !.quarDir0 = quarDir,
                              !.idx0 = current_model_idx,
                              !.count0 = request_count]
       IN  IF all_frames = <<>>
           THEN /\ report' = [op |-> "triage", raised |-> FALSE, stats |-> EmptyStats]
                /\ hist' = Append(hist, Done("triage", p, dry_run, FALSE, EmptyStats, o))
                /\ UNCHANGED <<quarDir, pc, run, obs>>
           ELSE /\ quarDir' = IF dry_run THEN quarDir
                               ELSE [quarDir EXCEPT ![QuarantineOf(p)] = TRUE]
                /\ run' = [op |-> "triage", policy |-> p, dry_run |-> dry_run,
                           all_frames |-> all_frames, batch_start |-> 0,
                           results |-> <<>>, ri |-> 0,
                           stats |-> NewStats(Len(all_frames))]
                /\ obs' = o
                /\ pc' = "call"
                /\ UNCHANGED <<report, hist>>
    /\ UNCHANGED <<root, quar, oracle, dir0, other_client, clientVars>>

\* batches that start BATCH_SIZE apart and hold one frame more
CurrentBatch_Overlap ==
    SubSeq(run.all_frames, run.batch_start + 1,
           Min(run.batch_start + BATCH_SIZE + 1, Len(run.all_frames)))

\* batch = all_frames[batch_start:batch_end]
CurrentBatch ==
    SubSeq(run.all_frames, run.batch_start + 1,
           Min(run.batch_start + BATCH_SIZE, Len(run.all_frames)))

\* lines 75-84: one batch method call; an exception of _encode_image leaves the
\* batch method and the triage function
TriageCall(o) ==
    /\ pc = "call"
    /\ LET batch == CurrentBatch
           seen == [obs EXCEPT !.calls = Append(@, [kind |-> o.kind, msg |-> o.msg,
                                                    batch |-> batch,
                                                    k |-> Min(o.k, Len(batch)),
                                                    remote |-> RemoteCalls(o)])]
       IN  IF o.kind = "encode_error"
           THEN /\ report' = [op |-> "triage", raised |-> TRUE]
                /\ hist' = Append(hist, Done("triage", run.policy, run.dry_run, TRUE,
                                             [total |-> run.stats.total], seen))
                /\ pc' = "idle"
                /\ run' = NoRun
                /\ obs' = NoObs
                /\ UNCHANGED clientVars
           ELSE /\ run' = [run EXCEPT
                             !.results = EngineResults(run.policy, batch, o, current_model_idx),
                             !.ri = 1]
                /\ current_model_idx' = IdxAfterCall(current_model_idx, o)
                /\ request_count' = CountAfterCall(request_count, o)
                /\ obs' = seen
                /\ pc' = "handle"
                /\ UNCHANGED <<report, hist>>
    /\ UNCHANGED <<fsVars, oracle, dir0, other_client>>

\* loops that go on to the next batch call as soon as one result is handled
LoopAfterResult_Eager(lastOfBatch, next_start, n) ==
    IF next_start < n THEN "call"
    ELSE IF lastOfBatch THEN "return" ELSE "handle"

\* for result in results inside for batch_start in range(0, n, BATCH_SIZE):
\* the next result of the batch, then the next batch, then the end
LoopAfterResult(lastOfBatch, next_start, n) ==
    IF ~lastOfBatch THEN "handle"
    ELSE IF next_start < n THEN "call"
    ELSE "return"

\* lines 87-115: the loop body for results[ri]; then the next result, the next
\* batch, or the end of the loops
TriageHandle(moveOk) ==
    /\ pc = "handle"
    /\ LET r == run.results[run.ri]
           f == r.image_path
           p == QuarantineOf(run.policy)
           attempted == MoveAttempted(r, run.dry_run)
           lastOfBatch == run.ri = Len(run.results)
           next_start == run.batch_start + BATCH_SIZE
       IN  /\ IF attempted /\ moveOk
              THEN /\ root' = MoveOut(root, f)
                   /\ quar' = [quar EXCEPT ![p] = MoveIn(@, f)]
              ELSE UNCHANGED <<root, quar>>
           /\ run' = [run EXCEPT
                        !.stats = StatsAfter(@, r, run.dry_run, moveOk),
                        !.ri = IF lastOfBatch THEN 0 ELSE @ + 1,
                        !.results = IF lastOfBatch THEN <<>> ELSE @,
                        !.batch_start = IF lastOfBatch THEN next_start ELSE @]
           /\ obs' = [obs EXCEPT
                        !.log = Append(@, r),
                        !.moveFailed = IF attempted /\ ~moveOk THEN @ \cup {f} ELSE @]
           /\ pc' = LoopAfterResult(lastOfBatch, next_start, Len(run.all_frames))
    /\ UNCHANGED <<quarDir, oracle, dir0, other_client, clientVars, report, hist>>

\* lines 119-129: return stats
TriageReturn ==
    /\ pc = "return"
    /\ report' = [op |-> "triage", raised |-> FALSE, stats |-> run.stats]
    /\ hist' = Append(hist, Done("triage", run.policy, run.dry_run, FALSE, run.stats, obs))
    /\ pc' = "idle"
    /\ run' = NoRun
    /\ obs' = NoObs
    /\ UNCHANGED <<fsVars, oracle, dir0, other_client, clientVars>>


\* The run is stopped (the process is interrupted) before a batch call or
\* between two results; restart says whether the next run is made by a new
\* process, which builds a new GroqVisionClient.
TriageStop(restart) ==
    /\ pc \in {"call", "handle"}
    /\ report' = [op |-> "triage", raised |-> TRUE]
    /\ hist' = Append(hist, Done("triage", run.policy, run.dry_run, TRUE,
                                 [total |-> run.stats.total, stopped |-> pc], obs))
    /\ pc' = "idle"
    /\ run' = NoRun
    /\ obs' = NoObs
    /\ current_model_idx' = IF restart THEN 0 ELSE current_model_idx
    /\ request_count' = IF restart THEN 0 ELSE request_count
    /\ UNCHANGED <<fsVars, oracle, dir0, other_client>>

(***************************************************************************)
(* Restore: restore_no_human_frames / restore_not_suitable_frames.         *)
(***************************************************************************)
\* the filter of the listing of the quarantine subfolder: f.endswith(...)
RestoreFilter(f) == endswith(f, ImageSuffixes)

\* a listing that reads every quarantine subfolder
ListQuarantined_Any(p) == {f \in UNION {quar[q] : q \in Policies} : RestoreFilter(f)}

\* files = [f for f in os.listdir(quarantine) if f.endswith(...)]
ListQuarantined(p) == {f \in quar[p] : RestoreFilter(f)}

\* lines 143-151: the missing subfolder returns 0; else the listing
RestoreStart(p) ==
    /\ pc = "idle"
    /\ Len(hist) < MaxRuns
    /\ LET o == [NoObs EXCEPT !.root0 = root, !.quar0 = quar, !.quarDir0 = quarDir,
                              !.idx0 = current_model_idx,
                              !.count0 = request_count]
       IN  IF ~quarDir[p]
           THEN /\ report' = [op |-> "restore", raised |-> FALSE, restored |-> 0]
                /\ hist' = Append(hist, Done("restore", p, FALSE, FALSE, 0, o))
                /\ UNCHANGED <<pc, run, obs>>
           ELSE /\ run' = [op |-> "restore", policy |-> p,
                           files |-> ListQuarantined(p), restored |-> 0]
                /\ obs' = o
                /\ pc' = "restore"
                /\ UNCHANGED <<report, hist>>
    /\ UNCHANGED <<fsVars, oracle, dir0, other_client, clientVars>>

\* lines 152-159: the loop body for one listed file, in os.listdir's (arbitrary)
\* order; moveOk: shutil.move did not raise
RestoreMove(f, moveOk) ==
    /\ pc = "restore"
    /\ f \in run.files
    /\ IF moveOk
       THEN /\ quar' = [quar EXCEPT ![run.policy] = MoveOut(@, f)]
            /\ root' = MoveIn(root, f)
       ELSE UNCHANGED <<root, quar>>
    /\ run' = [run EXCEPT !.files = @ \ {f},
                          !.restored = IF moveOk THEN @ + 1 ELSE @]
    /\ obs' = [obs EXCEPT !.log = Append(@, f),
                          !.moveFailed = IF moveOk THEN @ ELSE @ \cup {f}]
    /\ UNCHANGED <<quarDir, oracle, dir0, other_client, clientVars, pc, report, hist>>

\* lines 161-162: return restored
RestoreReturn ==
    /\ pc = "restore"
    /\ run.files = {}
    /\ report' = [op |-> "restore", raised |-> FALSE, restored |-> run.restored]
    /\ hist' = Append(hist, Done("restore", run.policy, FALSE, FALSE, run.restored, obs))
    /\ pc' = "idle"
    /\ run' = NoRun
    /\ obs' = NoObs
    /\ UNCHANGED <<fsVars, oracle, dir0, other_client, clientVars>>

(***************************************************************************)
(* The adapter's batch methods as an operation of their own.               *)
(***************************************************************************)
\* analyze_images_batch (p = "human") / analyze_dataset_suitability_batch
\* (p = "suitable") called directly with any list of paths
AnalyzeBatch(p, image_paths, o) ==
    /\ pc = "idle"
    /\ LET seen == [NoObs EXCEPT !.root0 = root, !.idx0 = current_model_idx,
                                 !.count0 = request_count]
           made == [seen EXCEPT !.calls = <<[kind |-> o.kind, msg |-> o.msg,
                                             batch |-> image_paths,
                                             k |-> Min(o.k, Len(Truncate(image_paths))),
                                             remote |-> RemoteCalls(o)]>>]
       IN  IF image_paths = <<>>
           THEN /\ report' = [op |-> "batch", raised |-> FALSE, results |-> <<>>]
                /\ hist' = Append(hist, Done("batch", p, FALSE, FALSE,
                                             [image_paths |-> <<>>, results |-> <<>>],
                                             seen))
                /\ UNCHANGED clientVars
           ELSE IF o.kind = "encode_error"
           THEN /\ report' = [op |-> "batch", raised |-> TRUE]
                /\ hist' = Append(hist, Done("batch", p, FALSE, TRUE,
                                             [image_paths |-> image_paths], made))
                /\ UNCHANGED clientVars
           ELSE LET results == BatchResults(image_paths, p, o, current_model_idx)
                IN  /\ report' = [op |-> "batch", raised |-> FALSE, results |-> results]
                    /\ hist' = Append(hist, Done("batch", p, FALSE, FALSE,
                                                 [image_paths |-> image_paths,
                                                  results |-> results], made))
                    /\ current_model_idx' = IdxAfterCall(current_model_idx, o)
                    /\ request_count' = CountAfterCall(request_count, o)
    /\ UNCHANGED <<fsVars, oracle, dir0, other_client, pc, run, obs>>


(***************************************************************************)
(* Two GroqVisionClient instances and any sequence of calls on them.  The  *)
(* counters are instance attributes set in __init__; report tallies, per    *)
(* instance, the calls made and the remote calls that returned.            *)
(***************************************************************************)
Clients == {1, 2}
ClientMethods == {"single", "human", "suitability"}

ClientOf(inst) ==
    IF inst = 1
    THEN [current_model_idx |-> current_model_idx, request_count |-> request_count]
    ELSE other_client

NoTally == [op |-> "client", attempts |-> [i \in Clients |-> 0],
            returned |-> [i \in Clients |-> 0]]
Tally == IF report.op = "client" THEN report ELSE NoTally
TotalCalls == Tally.attempts[1] + Tally.attempts[2]

\* one call of method on instance inst: analyze_single_image always builds a
\* request; the batch methods return [] for an empty list before building one
ClientCall(inst, method, empty, o) ==
    /\ pc = "idle"
    /\ LET me == ClientOf(inst)
           remote == method = "single" \/ ~empty
           idx == IF remote THEN IdxAfterCall(me.current_model_idx, o)
                  ELSE me.current_model_idx
           cnt == IF remote THEN CountAfterCall(me.request_count, o)
                  ELSE me.request_count
       IN  /\ IF inst = 1
              THEN /\ current_model_idx' = idx
                   /\ request_count' = cnt
                   /\ UNCHANGED other_client
              ELSE /\ other_client' = [current_model_idx |-> idx, request_count |-> cnt]
                   /\ UNCHANGED clientVars
           /\ report' = [Tally EXCEPT
                            !.attempts[inst] = @ + 1,
                            !.returned[inst] = IF remote /\ Returned(o) THEN @ + 1 ELSE @]
    /\ UNCHANGED <<fsVars, oracle, dir0, pc, run, obs, hist>>

(***************************************************************************)
(* Frame sampler: extract_frames_from_video / extract_frames_from_videos.  *)
(***************************************************************************)
\* str.startswith
startswith(s, prefix) ==
    /\ Len(prefix) <= Len(s)
    /\ SubSeq(s, 1, Len(prefix)) = prefix

\* the decimal digits of n >= 0
RECURSIVE DecDigits(_)
DecDigits(n) ==
    IF n < 10 THEN <<Digits[n + 1]>>
    ELSE DecDigits(n \div 10) \o <<Digits[(n % 10) + 1]>>

\* the digits without any zero-filling
Pad5_Unpadded(n) == DecDigits(n)

\* format(n, "05d"): at least five digits, zero-filled on the left
Pad5(n) ==
    LET d == DecDigits(n)
    IN  [i \in 1..(5 - Min(5, Len(d))) |-> "0"] \o d

\* f"frame_{extracted_count:05d}.jpg"
FramePrefix == <<"f", "r", "a", "m", "e", "_">>
JpgSuffix == <<".", "j", "p", "g">>
frame_filename(n) == FramePrefix \o Pad5(n) \o JpgSuffix

\* a video as cv2.VideoCapture shows it: whether it opens, CAP_PROP_FPS in
\* hundredths of a frame per second, and how many cap.read() calls return a frame
Unopenable == [openable |-> FALSE, fps |-> 0, frames |-> 0]
FpsValues == {-2500, 0, 1400}
Videos ==
    {Unopenable}
    \cup {[openable |-> TRUE, fps |-> f, frames |-> n] : f \in FpsValues, n \in 0..MaxReads}

\* int(x) of the quotient a / b, b > 0: truncation toward zero
TruncDiv(a, b) == IF a >= 0 THEN a \div b ELSE -((-a) \div b)

\* round(x) of the quotient a / b, b > 0: to the nearest integer, halves to even
RoundDiv(a, b) ==
    LET q == a \div b
        r == a - q * b
    IN  IF 2 * r < b THEN q
        ELSE IF 2 * r > b THEN q + 1
        ELSE IF q % 2 = 0 THEN q ELSE q + 1

\* the step computed by rounding
frame_interval_Rounded(fps, frame_interval_sec) ==
    LET raw == RoundDiv(fps * frame_interval_sec, 10000)
    IN  IF raw < 1 THEN 1 ELSE raw

\* frame_interval = int(fps * frame_interval_sec); if frame_interval < 1: 1
frame_interval(fps, frame_interval_sec) ==
    LET raw == TruncDiv(fps * frame_interval_sec, 10000)
    IN  IF raw < 1 THEN 1 ELSE raw

\* a count that looks for another extension and so finds no earlier frame
existing_frames_Jpeg ==
    Cardinality({f \in root : /\ startswith(f, FramePrefix)
                              /\ EndsWithOne(f, <<".", "j", "p", "e", "g">>)})

\* len([f for f in os.listdir(output_dir)
\*      if f.startswith("frame_") and f.endswith(".jpg")])
existing_frames ==
    Cardinality({f \in root : startswith(f, FramePrefix) /\ EndsWithOne(f, JpgSuffix)})

\* lines 93-115: the early return for an empty list, ensure_dir, total_frames = 0
ExtractStart(video_paths, frame_interval_sec) ==
    /\ pc = "idle"
    /\ IF video_paths = <<>>
       THEN /\ report' = [op |-> "extract", raised |-> FALSE, output_dir |-> None]
            /\ hist' = Append(hist, Done("extract", "none", FALSE, FALSE,
                                         [output_dir |-> None, total_frames |-> 0],
                                         [NoObs EXCEPT !.root0 = root]))
            /\ UNCHANGED <<pc, run, obs>>
       ELSE /\ run' = [op |-> "extract", video_paths |-> video_paths,
                       frame_interval_sec |-> frame_interval_sec,
                       i |-> 1, total_frames |-> 0]
            /\ obs' = [NoObs EXCEPT !.root0 = root]
            /\ pc' = "open"
            /\ UNCHANGED <<report, hist>>
    /\ UNCHANGED <<fsVars, oracle, dir0, other_client, clientVars>>

\* a loop that gives up at the first video that does not open
LoopAfter_StopOnFailure(i, n, opened) ==
    IF i = n \/ ~opened THEN "finish" ELSE "open"

\* for i, video_path in enumerate(video_paths, 1): the loop goes on to the
\* next video whatever the last one returned
LoopAfter(i, n, opened) == IF i = n THEN "finish" ELSE "open"

\* lines 119-120 after extract_frames_from_video returned frames: the sum and
\* the next video, or the end of the loop
AfterVideo(opened, start, step, frames) ==
    /\ run' = [op |-> "extract", video_paths |-> run.video_paths,
               frame_interval_sec |-> run.frame_interval_sec,
               i |-> run.i + 1, total_frames |-> run.total_frames + frames]
    /\ obs' = [obs EXCEPT !.calls = Append(@, [video |-> run.i, opened |-> opened,
                                               start |-> start, step |-> step,
                                               frames |-> frames])]
    /\ pc' = LoopAfter(run.i, Len(run.video_paths), opened)

\* lines 33-56: the video is opened; one that does not open returns 0 at once
ExtractOpen ==
    /\ pc = "open"
    /\ LET v == run.video_paths[run.i]
       IN  IF ~v.openable
           THEN AfterVideo(FALSE, 0, 0, 0)
           ELSE /\ run' = [op |-> "extract", video_paths |-> run.video_paths,
                           frame_interval_sec |-> run.frame_interval_sec,
                           i |-> run.i, total_frames |-> run.total_frames,
                           frame_interval |-> frame_interval(v.fps, run.frame_interval_sec),
                           existing_frames |-> existing_frames,
                           count |-> 0,
                           extracted_count |-> existing_frames]
                /\ pc' = "read"
                /\ obs' = obs
    /\ UNCHANGED <<fsVars, oracle, dir0, other_client, clientVars, report, hist>>

\* lines 58-74: one cap.read(); a frame is written when count is a multiple of
\* frame_interval; the end of the video returns the number of frames written
ExtractRead ==
    /\ pc = "read"
    /\ LET v == run.video_paths[run.i]
       IN  IF run.count >= v.frames
           THEN /\ AfterVideo(TRUE, run.existing_frames, run.frame_interval,
                              run.extracted_count - run.existing_frames)
                /\ root' = root
           ELSE IF run.count % run.frame_interval = 0
           THEN /\ root' = root \cup {frame_filename(run.extracted_count)}
                /\ run' = [run EXCEPT !.extracted_count = @ + 1, !.count = @ + 1]
                /\ obs' = [obs EXCEPT !.log = Append(@, [video |-> run.i,
                                                         position |-> run.count,
                                                         name |-> frame_filename(run.extracted_count)])]
                /\ pc' = pc
           ELSE /\ run' = [run EXCEPT !.count = @ + 1]
                /\ UNCHANGED <<root, obs, pc>>
    /\ UNCHANGED <<quar, quarDir, oracle, dir0, other_client, clientVars, report, hist>>

\* lines 122-128: the summary and the return of output_dir
ExtractReturn ==
    /\ pc = "finish"
    /\ report' = [op |-> "extract", raised |-> FALSE, output_dir |-> "output_dir"]
    /\ hist' = Append(hist, Done("extract", "none", FALSE, FALSE,
                                 [output_dir |-> "output_dir",
                                  video_paths |-> run.video_paths,
                                  total_frames |-> run.total_frames], obs))
    /\ pc' = "idle"
    /\ run' = NoRun
    /\ obs' = NoObs
    /\ UNCHANGED <<fsVars, oracle, dir0, other_client, clientVars>>

\* the lists of at most n elements of S
RECURSIVE ListsUpTo(_, _)
ListsUpTo(S, n) ==
    IF n = 0 THEN {<<>>}
    ELSE LET shorter == ListsUpTo(S, n - 1)
         IN  shorter \cup {Append(l, x) : l \in shorter, x \in S}

\* 10^d
RECURSIVE Pow10(_)
Pow10(d) == IF d = 0 THEN 1 ELSE 10 * Pow10(d - 1)

\* frame indices at which the number of digits changes, and their neighbours
EdgeIndices ==
    {0} \cup UNION { {Pow10(d) - 1, Pow10(d), Pow10(d) + 1} : d \in 1..(MaxDigits - 1) }

\* line 64: the name under which the frame with index n is written
NameFrame(n) ==
    /\ pc = "idle"
    /\ report' = [op |-> "name", raised |-> FALSE, name |-> frame_filename(n)]
    /\ hist' = Append(hist, Done("name", "none", FALSE, FALSE,
                                 [index |-> n, name |-> frame_filename(n)], NoObs))
    /\ UNCHANGED <<fsVars, oracle, dir0, other_client, clientVars, pc, run, obs>>

(***************************************************************************)
(* Session key: get_video_prefix.                                          *)
(***************************************************************************)
\* \d and \s of the patterns, on the characters the modelled names use
IsDigit(c) == IsIn(Digits, c)
IsSpace(c) == c = " "
AllDigits(s) == \A i \in 1..Len(s) : IsDigit(s[i])

\* the text starts with lit at position i
LitAt(s, i, lit) ==
    /\ i + Len(lit) - 1 <= Len(s)
    /\ SubSeq(s, i, i + Len(lit) - 1) = lit

\* how many characters from position i on are whitespace / digits (a greedy
\* \s+ or \d+ that is followed by a character of another class takes them all)
RECURSIVE SpacesFrom(_, _)
SpacesFrom(s, i) ==
    IF i > Len(s) \/ ~IsSpace(s[i]) THEN 0 ELSE 1 + SpacesFrom(s, i + 1)
RECURSIVE DigitsFrom(_, _)
DigitsFrom(s, i) ==
    IF i > Len(s) \/ ~IsDigit(s[i]) THEN 0 ELSE 1 + DigitsFrom(s, i + 1)

\* os.path.basename: the text after the last "/"
basename(s) ==
    LET slashes == {i \in 1..Len(s) : s[i] = "/"}
    IN  IF slashes = {} THEN s
        ELSE SubSeq(s, (CHOOSE i \in slashes : \A j \in slashes : j <= i) + 1, Len(s))

\* os.path.splitext(...)[0]: the text before the last dot, unless that dot
\* has only dots (or nothing) before it
name_without_ext(s) ==
    LET dots == {i \in 1..Len(s) : s[i] = "."}
    IN  IF dots = {} THEN s
        ELSE LET last == CHOOSE i \in dots : \A j \in dots : j <= i
             IN  IF \E j \in 1..(last - 1) : s[j] # "." THEN SubSeq(s, 1, last - 1)
                 ELSE s

\* (?:Camera|IPCamera)
Markers == { <<"C", "a", "m", "e", "r", "a">>,
             <<"I", "P", "C", "a", "m", "e", "r", "a">> }

\* (?:Camera|IPCamera)\s+\d+ tried right after a prefix of L characters: the
\* position of the last digit it matches, or 0 when it does not match
CameraEnd(s, L) ==
    LET ms == {m \in Markers : LitAt(s, L + 1, m)}
    IN  IF ms = {} THEN 0
        ELSE LET j == L + 1 + Len(CHOOSE m \in ms : TRUE)
                 sp == SpacesFrom(s, j)
                 d == DigitsFrom(s, j + sp)
             IN  IF sp >= 1 /\ d >= 1 THEN j + sp + d - 1 ELSE 0

\* _\d{14}_\d{14}$ from position i on
StampsAt(s, i) ==
    /\ Len(s) = i + 29
    /\ s[i] = "_"
    /\ AllDigits(SubSeq(s, i + 1, i + 14))
    /\ s[i + 15] = "_"
    /\ AllDigits(SubSeq(s, i + 16, i + 29))

\* the result of a failed re.match
NoMatch == <<"<no match>">>

\* group(1) of the lazy .+? taking the fewest characters (at least one) for
\* which the rest of the pattern matches
FirstGroup(s, Ls) ==
    IF Ls = {} THEN NoMatch
    ELSE SubSeq(s, 1, CameraEnd(s, CHOOSE L \in Ls : \A K \in Ls : L <= K))

\* re.match(r'^(.+?(?:Camera|IPCamera)\s+\d+)_\d{14}_\d{14}$', s)
pattern(s) ==
    FirstGroup(s, {L \in 1..Len(s) :
                      CameraEnd(s, L) # 0 /\ StampsAt(s, CameraEnd(s, L) + 1)})

\* re.match(r'^(.+?(?:Camera|IPCamera)\s+\d+)', s)
pattern2(s) == FirstGroup(s, {L \in 1..Len(s) : CameraEnd(s, L) # 0})

\* s.split('_')
RECURSIVE split(_)
split(s) ==
    LET us == {i \in 1..Len(s) : s[i] = "_"}
    IN  IF us = {} THEN <<s>>
        ELSE LET i == CHOOSE k \in us : \A j \in us : k <= j
             IN  <<SubSeq(s, 1, i - 1)>> \o split(SubSeq(s, i + 1, Len(s)))

\* '_'.join(parts)
RECURSIVE join(_)
join(parts) ==
    IF parts = <<>> THEN <<>>
    ELSE IF Len(parts) = 1 THEN parts[1]
    ELSE parts[1] \o <<"_">> \o join(Tail(parts))

\* re.match(r'^\d{14}$', part)
IsStamp(part) == Len(part) = 14 /\ AllDigits(part)

\* the parts collected before the loop breaks at the first 14-digit part
RECURSIVE prefix_parts(_)
prefix_parts(parts) ==
    IF parts = <<>> \/ IsStamp(Head(parts)) THEN <<>>
    ELSE <<Head(parts)>> \o prefix_parts(Tail(parts))

\* the last fallback returning the joined parts even when there are none
LastFallback_EmptyJoin(name) == join(prefix_parts(split(name)))

\* return '_'.join(prefix_parts) if prefix_parts else name_without_ext
LastFallback(name) ==
    LET pp == prefix_parts(split(name))
    IN  IF pp # <<>> THEN join(pp) ELSE name

\* a key that keeps the timestamps
get_video_prefix_WholeName(filename) == name_without_ext(basename(filename))

get_video_prefix(filename) ==
    LET name == name_without_ext(basename(filename))
    IN  IF pattern(name) # NoMatch THEN pattern(name)
        ELSE IF pattern2(name) # NoMatch THEN pattern2(name)
        ELSE LastFallback(name)

\* 14-digit timestamps that differ in their last digit
Stamp(k) == <<"2", "0", "2", "5", "1", "2", "1", "5", "1", "1", "0", "1", "4">> \o <<Digits[k + 1]>>
Stamps == {Stamp(k) : k \in 1..MaxStamps}
Mp4 == <<".", "m", "p", "4">>

\* names of the form <source><camera marker> <index>_<stamp>_<stamp>.mp4
Sources == { <<>>, <<"A", "_">>, <<"B", " ", "C", "a", "m", "e", "r", "a", " ", "1", "_">> }
Indexes == { <<"7">>, <<"0", "7">> }
CameraInputs ==
    {[kind |-> "camera", source |-> src, marker |-> m, index |-> ix,
      ts1 |-> t1, ts2 |-> t2] :
        src \in Sources, m \in Markers, ix \in Indexes, t1 \in Stamps, t2 \in Stamps}

\* names without camera marker: up to MaxSegments segments joined by "_"
Segments == Stamps \cup { <<"c", "a", "m">>, <<"x", "1">>, <<"2", "0", "2", "5", "1", "2", "1", "5", "1", "1", "0", "1", "4">> }
SegmentInputs ==
    {[kind |-> "segments", parts |-> l] :
        l \in ListsUpTo(Segments, MaxSegments) \ {<<>>}}

\* the file name an input stands for
FileName(inp) ==
    IF inp.kind = "camera"
    THEN inp.source \o inp.marker \o <<" ">> \o inp.index
         \o <<"_">> \o inp.ts1 \o <<"_">> \o inp.ts2 \o Mp4
    ELSE join(inp.parts) \o Mp4

\* one call of get_video_prefix
PrefixCall(inp) ==
    /\ pc = "idle"
    /\ LET key == get_video_prefix(FileName(inp))
       IN  /\ report' = [op |-> "prefix", raised |-> FALSE, key |-> key]
           /\ hist' = Append(hist, Done("prefix", "none", FALSE, FALSE,
                                        [input |-> inp, filename |-> FileName(inp),
                                         key |-> key], NoObs))
    /\ UNCHANGED <<fsVars, oracle, dir0, other_client, clientVars, pc, run, obs>>

(***************************************************************************)
(* Session grouping: collect_similar_videos.                               *)
(***************************************************************************)
\* a test that looks at the extension as it is written
IsMp4_CaseSensitive(filename) == EndsWithOne(filename, Mp4)

\* filename.lower().endswith('.mp4')
IsMp4(filename) == EndsWithOne(lower(filename), Mp4)

\* os.path.join(source_dir, filename)
source_dir == <<"r", "a", "w">>
full_path(filename) == source_dir \o <<"/">> \o filename

\* the list collect_similar_videos returns; found is FALSE when os.listdir
\* raises FileNotFoundError
collect_similar_videos(reference_filename, listing, found) ==
    LET prefix == get_video_prefix(reference_filename)
    IN  IF prefix = <<>> THEN <<>>
        ELSE IF ~found THEN <<>>
        ELSE sorted({full_path(f) : f \in {g \in listing :
                                             IsMp4(g) /\ get_video_prefix(g) = prefix}})

\* the entries a source directory may hold: recordings of camera 7 with
\* extensions of either case, a recording of another session, a recording in
\* another container, a text file, and two names whose session key is empty
Recording(k) ==
    <<"A", "_", "C", "a", "m", "e", "r", "a", " ", "7", "_">> \o Stamp(k) \o <<"_">> \o Stamp(k)
    \o (IF k % 2 = 1 THEN Mp4 ELSE <<".", "M", "P", "4">>)
SourceNames ==
    {Recording(k) : k \in 1..MaxStamps}
    \cup { <<"A", "_", "C", "a", "m", "e", "r", "a", " ", "0", "7", "_">> \o Stamp(1) \o <<"_">> \o Stamp(1) \o Mp4,
           <<"A", "_", "C", "a", "m", "e", "r", "a", " ", "7", "_">> \o Stamp(1) \o <<"_">> \o Stamp(1) \o <<".", "a", "v", "i">>,
           <<"A", "_", "C", "a", "m", "e", "r", "a", " ", "7", "_", "n", "o", "t", "e", "s", ".", "t", "x", "t">>,
           <<"_">> \o Stamp(1) \o Mp4,
           <<"_">> \o Stamp(1) \o <<"_">> \o Stamp(1) \o Mp4 }

\* one call of collect_similar_videos on the directory root
CollectCall(reference_filename, found) ==
    /\ pc = "idle"
    /\ ~found => root = {}
    /\ LET result == collect_similar_videos(reference_filename, root, found)
       IN  /\ report' = [op |-> "collect", raised |-> FALSE, result |-> result]
           /\ hist' = Append(hist, Done("collect", "none", FALSE, FALSE,
                                        [reference_filename |-> reference_filename,
                                         found |-> found, listing |-> root,
                                         result |-> result], NoObs))
    /\ UNCHANGED <<fsVars, oracle, dir0, other_client, clientVars, pc, run, obs>>

(***************************************************************************)
(* Rename tool: generate_new_filename / preview_renames / execute_renames.  *)
(* Times are milliseconds after the start of the hour of start_time.       *)
(***************************************************************************)
\* the tuple ('.mp4', '.avi', '.mkv', '.mov')
VideoSuffixes == { <<".", "m", "p", "4">>, <<".", "a", "v", "i">>,
                   <<".", "m", "k", "v">>, <<".", "m", "o", "v">> }

ClipExts == << <<".", "m", "p", "4">>,
               <<".", "A", "V", "I">>,
               <<".", "m", "o", "v">>,
               <<".", "t", "x", "t">>,
               <<".", "m", "k", "v">> >>
ClipName(i) == Pad2(i) \o ClipExts[((i - 1) % Len(ClipExts)) + 1]
ClipNames == {ClipName(i) : i \in 1..MaxClips}

\* frame_count / fps of get_video_duration, in milliseconds; 0 for a video
\* that does not open or reports no frame rate
Durations == {0, 400, 1000, 1600}

\* the videos of a folder, as preview_renames and the file count list them
VideoFiles(dir) == {f \in dir : endswith(lower(f), VideoSuffixes)}

\* strftime("%Y%m%d%H%M%S") of start_time + t milliseconds: the date and the
\* hour, then minutes and seconds; the fraction of a second is dropped
StampHour == <<"2", "0", "2", "6", "0", "1", "1", "2", "1", "0">>
strftime(t) ==
    LET sec == t \div 1000
    IN  StampHour \o Pad2((sec \div 60) % 60) \o Pad2(sec % 60)

\* f"{location}_Camera {camera_num:02d}_{start_str}_{end_str}.mp4" for
\* location "K" and camera 1
NamePrefix == <<"K", "_", "C", "a", "m", "e", "r", "a", " ", "0", "1", "_">>
generate_new_filename(start_time, duration) ==
    NamePrefix \o strftime(start_time) \o <<"_">> \o strftime(start_time + duration)
               \o <<".", "m", "p", "4">>

\* the loop of preview_renames over the sorted videos: current_time advances
\* by each duration
RECURSIVE RenamesFrom(_, _, _)
RenamesFrom(videos, duration, current_time) ==
    IF videos = <<>> THEN <<>>
    ELSE LET video == Head(videos)
         IN  <<[old |-> video,
                new |-> generate_new_filename(current_time, duration[video])]>>
             \o RenamesFrom(Tail(videos), duration, current_time + duration[video])

preview_renames(folder, duration, start_time) ==
    RenamesFrom(sorted(VideoFiles(folder)), duration, start_time)

\* preview_renames, then the start of execute_renames; posix: os.rename
\* replaces an existing destination (it raises FileExistsError on Windows)
RenameStart(duration, start_time, posix) ==
    /\ pc = "idle"
    /\ LET renames == preview_renames(root, duration, start_time)
           o == [NoObs EXCEPT !.root0 = root]
       IN  IF renames = <<>>
           THEN /\ report' = [op |-> "rename", raised |-> FALSE, renames |-> <<>>]
                /\ hist' = Append(hist, Done("rename", "none", FALSE, FALSE,
                                             [renames |-> <<>>, success_count |-> 0], o))
                /\ UNCHANGED <<pc, run, obs>>
           ELSE /\ run' = [op |-> "rename", renames |-> renames, i |-> 1,
                           posix |-> posix, success_count |-> 0]
                /\ obs' = o
                /\ pc' = "rename"
                /\ UNCHANGED <<report, hist>>
    /\ UNCHANGED <<fsVars, oracle, dir0, other_client, clientVars>>

\* os.rename(old_path, new_path) raises: the source is gone, or the
\* destination exists and the platform does not replace it
RenameRaises(dir, old, new, posix) ==
    \/ old \notin dir
    \/ new \in dir /\ new # old /\ ~posix

\* the folder after os.rename(old_path, new_path) succeeded
Renamed(dir, old, new) == (dir \ {old}) \cup {new}

\* the loop body of execute_renames for one pair
RenameStep ==
    /\ pc = "rename"
    /\ run.i <= Len(run.renames)
    /\ LET old_name == run.renames[run.i].old
           new_name == run.renames[run.i].new
           raises == RenameRaises(root, old_name, new_name, run.posix)
       IN  /\ root' = IF raises THEN root ELSE Renamed(root, old_name, new_name)
           /\ run' = [run EXCEPT !.i = @ + 1,
                                 !.success_count = IF raises THEN @ ELSE @ + 1]
    /\ UNCHANGED <<quar, quarDir, oracle, dir0, other_client, clientVars,
                   pc, obs, report, hist>>

\* return success_count
RenameReturn ==
    /\ pc = "rename"
    /\ run.i > Len(run.renames)
    /\ report' = [op |-> "rename", raised |-> FALSE, renames |-> run.renames]
    /\ hist' = Append(hist, Done("rename", "none", FALSE, FALSE,
                                 [renames |-> run.renames,
                                  success_count |-> run.success_count], obs))
    /\ pc' = "idle"
    /\ run' = NoRun
    /\ obs' = NoObs
    /\ UNCHANGED <<fsVars, oracle, dir0, other_client, clientVars>>

(***************************************************************************)
(* Specifications.                                                         *)
(***************************************************************************)
\* the images of a directory, as triage lists them
Images(dir) == {f \in dir : endswith(lower(f), ImageSuffixes)}

\* a freshly extracted directory with a new client (GroqVisionClient.__init__)
InitWith(dir, orc) ==
    /\ root = dir
    /\ quar = [p \in Policies |-> {}]
    /\ quarDir = [p \in Policies |-> FALSE]
    /\ oracle = orc
    /\ current_model_idx = 0
    /\ request_count = 0
    /\ pc = "idle"
    /\ run = NoRun
    /\ report = [op |-> "none"]
    /\ obs = NoObs
    /\ hist = <<>>
    /\ dir0 = dir
    /\ other_client = NewClient

\* Multi-run specification: any small directory, any per-image answers of the
\* human-presence oracle, any sequence of triage and restore runs.
Init ==
    \E dir \in SUBSET MixedNames :
        \E answers \in [Images(dir) -> BOOLEAN] :
            InitWith(dir, [p \in Policies |-> answers])

Next ==
    \/ \E dry_run \in BOOLEAN : TriageStart("human", dry_run)
    \/ \E o \in CallOutcomes : TriageCall(o)
    \/ \E moveOk \in BOOLEAN : TriageHandle(moveOk)
    \/ TriageReturn
    \/ RestoreStart("human")
    \/ \E f \in MixedNames, moveOk \in BOOLEAN : RestoreMove(f, moveOk)
    \/ RestoreReturn

Spec == Init /\ [][Next]_vars


\* Single-run specification over several batches: BatchFrames extracted frames,
\* any per-image answers, one triage run of either policy.
InitBatch ==
    \E answers \in [FrameNames(BatchFrames) -> BOOLEAN] :
        InitWith(FrameNames(BatchFrames), [p \in Policies |-> answers])

NextBatch ==
    \/ \E p \in Policies, dry_run \in BOOLEAN : hist = <<>> /\ TriageStart(p, dry_run)
    \/ \E o \in CallOutcomes : TriageCall(o)
    \/ \E moveOk \in BOOLEAN : TriageHandle(moveOk)
    \/ TriageReturn

SpecBatch == InitBatch /\ [][NextBatch]_vars

\* Filter specification: BatchFrames extracted frames, any per-image answers,
\* one run of analyze_and_filter_frames (image_analyzer.py).
NextFilter ==
    \/ \E dry_run \in BOOLEAN : hist = <<>> /\ TriageStart("filter", dry_run)
    \/ \E o \in CallOutcomes : TriageCall(o)
    \/ \E moveOk \in BOOLEAN : TriageHandle(moveOk)
    \/ TriageReturn

SpecFilter == InitBatch /\ [][NextFilter]_vars


\* Resume specification: BatchFrames extracted frames and an oracle that
\* answers for every image, always the same for the same image; a real
\* human-presence triage run that may be stopped at any point, and the run
\* made after it; every move succeeds.
NextResume ==
    \/ TriageStart("human", FALSE)
    \/ \E o \in CallOutcomes : o.kind = "ok" /\ o.k = BATCH_SIZE /\ TriageCall(o)
    \/ TriageHandle(TRUE)
    \/ TriageReturn
    \/ \E restart \in BOOLEAN : hist = <<>> /\ TriageStop(restart)

SpecResume == InitBatch /\ [][NextResume]_vars


\* Rotation specification: up to RotFrames extracted frames, an oracle that
\* accepts every frame, rejects every frame or rejects every other frame, one
\* human-presence triage run in which every move succeeds.
RotAnswers(dir) ==
    { [f \in dir |-> TRUE], [f \in dir |-> FALSE],
      [f \in dir |-> \E i \in 1..RotFrames : f = FrameName(i) /\ i % 2 = 0] }

InitRot ==
    \E n \in (RotFrames - 2)..RotFrames :
        \E answers \in RotAnswers(FrameNames(n)) :
            InitWith(FrameNames(n), [p \in Policies |-> answers])

NextRot ==
    \/ \E dry_run \in BOOLEAN : hist = <<>> /\ TriageStart("human", dry_run)
    \/ \E o \in CallOutcomes : TriageCall(o)
    \/ TriageHandle(TRUE)
    \/ TriageReturn

SpecRot == InitRot /\ [][NextRot]_vars


\* Adapter specification: one direct batch call of either method with a list
\* of up to MaxPaths paths in ascending or descending order, any per-image
\* answers and any call outcome.
Reverse(s) == [i \in 1..Len(s) |-> s[Len(s) + 1 - i]]

PathLists ==
    UNION { {sorted(FrameNames(n)), Reverse(sorted(FrameNames(n)))} : n \in 0..MaxPaths }

InitAdapter ==
    \E answers \in [FrameNames(MaxPaths) -> BOOLEAN] :
        InitWith(FrameNames(MaxPaths), [p \in Policies |-> answers])

NextAdapter ==
    \E p \in Policies, image_paths \in PathLists, o \in CallOutcomes :
        hist = <<>> /\ AnalyzeBatch(p, image_paths, o)

SpecAdapter == InitAdapter /\ [][NextAdapter]_vars


\* Client specification: up to MaxCalls calls of the three methods, in any
\* order and with any outcome, on two instances.
InitClient == InitWith({}, [p \in Policies |-> <<>>])

NextClient ==
    /\ TotalCalls < MaxCalls
    /\ \E inst \in Clients, method \in ClientMethods, empty \in BOOLEAN, o \in CallOutcomes :
          ClientCall(inst, method, empty, o)

SpecClient == InitClient /\ [][NextClient]_vars


\* Extraction specification: one extract_frames_from_videos call on any list of
\* up to MaxVideos videos into an empty output folder.
InitExtract == InitWith({}, [p \in Policies |-> <<>>])

NextExtract ==
    \/ /\ hist = <<>>
       /\ pc = "idle"
       /\ \E video_paths \in ListsUpTo(Videos, MaxVideos) :
             ExtractStart(video_paths, FRAME_INTERVAL_SECONDS)
    \/ ExtractOpen
    \/ ExtractRead
    \/ ExtractReturn

SpecExtract == InitExtract /\ [][NextExtract]_vars


\* Layering specification: one folder used by both policies.  Each image is in
\* the root or in the quarantine subfolder of a policy whose oracle rejects it
\* (where earlier triage runs have put it); then any MaxRuns runs of the two
\* triages and the two restores.
Placements(dir, orc) ==
    {pl \in [Images(dir) -> {"root"} \cup Policies] :
        \A f \in Images(dir) : pl[f] \in Policies => ~orc[pl[f]][f]}

InitLayer ==
    \E orc \in [Policies -> [Images(MixedNames) -> BOOLEAN]] :
        \E pl \in Placements(MixedNames, orc) :
            /\ root = {f \in MixedNames : f \notin Images(MixedNames) \/ pl[f] = "root"}
            /\ quar = [p \in Policies |-> {f \in Images(MixedNames) : pl[f] = p}]
            /\ quarDir = [p \in Policies |-> \E f \in Images(MixedNames) : pl[f] = p]
            /\ oracle = orc
            /\ current_model_idx = 0
            /\ request_count = 0
            /\ pc = "idle"
            /\ run = NoRun
            /\ report = [op |-> "none"]
            /\ obs = NoObs
            /\ hist = <<>>
            /\ dir0 = MixedNames
            /\ other_client = NewClient

NextLayer ==
    \/ \E p \in Policies : TriageStart(p, FALSE)
    \/ \E o \in CallOutcomes :
          /\ o.kind = "ok" /\ o.k = BATCH_SIZE
          /\ TriageCall(o)
    \/ \E moveOk \in BOOLEAN : TriageHandle(moveOk)
    \/ TriageReturn
    \/ \E p \in Policies : RestoreStart(p)
    \/ \E f \in MixedNames, moveOk \in BOOLEAN : RestoreMove(f, moveOk)
    \/ RestoreReturn

SpecLayer == InitLayer /\ [][NextLayer]_vars


\* Rename specification: any folder of up to MaxClips files, any duration of
\* each video, one preview_renames and execute_renames on either platform.
InitRename ==
    \E dir \in SUBSET ClipNames : InitWith(dir, [p \in Policies |-> <<>>])

NextRename ==
    \/ /\ hist = <<>>
       /\ pc = "idle"
       /\ \E duration \in [VideoFiles(root) -> Durations], start_time \in {0, 59600},
             posix \in BOOLEAN :
             RenameStart(duration, start_time, posix)
    \/ RenameStep
    \/ RenameReturn

SpecRename == InitRename /\ [][NextRename]_vars


\* Re-extraction specification: the output folder holds the frames 0..n-1 of an
\* earlier extraction, of which human-presence triage has moved any subset to
\* no-human/; then one extract_frames_from_videos call on up to MaxAgain videos.
PriorFrames(n) == {frame_filename(i) : i \in 0..(n - 1)}

InitReextract ==
    \E n \in 0..MaxPrior :
        \E moved \in SUBSET PriorFrames(n) :
            /\ root = PriorFrames(n) \ moved
            /\ quar = [p \in Policies |-> IF p = "human" THEN moved ELSE {}]
            /\ quarDir = [p \in Policies |-> p = "human" /\ n > 0]
            /\ oracle = [p \in Policies |-> <<>>]
            /\ current_model_idx = 0
            /\ request_count = 0
            /\ pc = "idle"
            /\ run = NoRun
            /\ report = [op |-> "none"]
            /\ obs = NoObs
            /\ hist = <<>>
            /\ dir0 = PriorFrames(n)
            /\ other_client = NewClient

NextReextract ==
    \/ /\ hist = <<>>
       /\ pc = "idle"
       /\ \E video_paths \in ListsUpTo(Videos, MaxAgain) :
             ExtractStart(video_paths, FRAME_INTERVAL_SECONDS)
    \/ ExtractOpen
    \/ ExtractRead
    \/ ExtractReturn

SpecReextract == InitReextract /\ [][NextReextract]_vars


\* Session-key specification: get_video_prefix applied to one name without
\* camera marker, or to up to two names of the camera form.
InitPrefix == InitWith({}, [p \in Policies |-> <<>>])

NextPrefix ==
    \/ /\ hist = <<>>
       /\ \E inp \in SegmentInputs : PrefixCall(inp)
    \/ /\ Len(hist) < 2
       /\ \A i \in 1..Len(hist) : hist[i].report.input.kind = "camera"
       /\ \E inp \in CameraInputs : PrefixCall(inp)

SpecPrefix == InitPrefix /\ [][NextPrefix]_vars


\* Grouping specification: one collect_similar_videos call for any reference
\* name on any source directory, present or missing.
InitCollect ==
    \E dir \in SUBSET SourceNames : InitWith(dir, [p \in Policies |-> <<>>])

NextCollect ==
    /\ hist = <<>>
    /\ \E reference_filename \in SourceNames, found \in BOOLEAN :
          CollectCall(reference_filename, found)

SpecCollect == InitCollect /\ [][NextCollect]_vars


\* Naming specification: the names of two frames of one extraction, their
\* indices taken where the number of digits changes.
InitNames == InitWith({}, [p \in Policies |-> <<>>])

NextNames ==
    /\ Len(hist) < 2
    /\ \E n \in EdgeIndices : NameFrame(n)

SpecNames == InitNames /\ [][NextNames]_vars


(***************************************************************************)
(* Properties.                                                             *)
(***************************************************************************)
LastRun == hist[Len(hist)]

\* the call op has just returned (without raising) and nothing ran since
JustReturned(op) ==
    /\ pc = "idle"
    /\ hist # <<>>
    /\ LastRun.op = op
    /\ ~LastRun.raised

\* frames of a run's verdicts, by the acceptability field of the verdict
RejectedBy(log) == {log[i].image_path : i \in {j \in 1..Len(log) : ~log[j].acceptable}}
AcceptedBy(log) == {log[i].image_path : i \in {j \in 1..Len(log) : log[j].acceptable}}
\* frames whose verdict was synthesized by the adapter (it has an "error" key)
FailOpenBy(log) == {log[i].image_path : i \in {j \in 1..Len(log) : log[j].error # None}}

\* C1: every returned triage report satisfies accept + reject + error == total.
C1_ReportExact ==
    JustReturned("triage") =>
        LET s == LastRun.report
        IN  s.accepted + s.rejected + s.errors = s.total

\* every batch call of the run raised in the remote call
AllCallsRaised(o) ==
    /\ o.calls # <<>>
    /\ \A i \in 1..Len(o.calls) : o.calls[i].kind = "raise"

\* frames of the batches whose exception has a non-empty message
RECURSIVE FramesOfLoudCalls(_)
FramesOfLoudCalls(calls) ==
    IF calls = <<>> THEN 0
    ELSE (IF Head(calls).msg # "" THEN Len(Head(calls).batch) ELSE 0)
         + FramesOfLoudCalls(Tail(calls))

\* C2 as claimed: when the remote call raises on every batch, the report has
\* accept == total, reject == 0, error == 0, and no file is moved.
C2_FailOpenAllAccepted ==
    (JustReturned("triage") /\ AllCallsRaised(LastRun.obs)) =>
        LET s == LastRun.report
        IN  /\ s.accepted = s.total
            /\ s.rejected = 0
            /\ s.errors = 0
            /\ root = LastRun.obs.root0

\* C2 as amended: when the remote call raises on every batch, no frame is
\* rejected and no file is moved; the frames of a batch are counted under error
\* when the exception has a message, and under accept only when str(e) is empty.
C2_FailOpenCounted ==
    (JustReturned("triage") /\ AllCallsRaised(LastRun.obs)) =>
        LET s == LastRun.report
            loud == FramesOfLoudCalls(LastRun.obs.calls)
        IN  /\ s.rejected = 0
            /\ s.moved_files = <<>>
            /\ root = LastRun.obs.root0
            /\ quar = LastRun.obs.quar0
            /\ s.errors = loud
            /\ s.accepted = s.total - loud

C2_Witness ==
    /\ JustReturned("triage")
    /\ AllCallsRaised(LastRun.obs)
    /\ ~LastRun.dry_run
    /\ Len(LastRun.obs.calls) >= 2
    /\ LastRun.report.total = BatchFrames
    /\ LastRun.report.errors = BatchFrames
    /\ \E f \in root : ~oracle[LastRun.policy][f]

\* C3: after a returned non-dry-run triage in which no move failed, the files
\* that left the root are exactly the files that arrived in the quarantine
\* subfolder, exactly the frames with a REJECT verdict and exactly the
\* moved_files of the report; every frame with an ACCEPT verdict is in the root.
C3_QuarantineIsRejected ==
    (/\ JustReturned("triage")
     /\ ~LastRun.dry_run
     /\ LastRun.report.total > 0
     /\ LastRun.obs.moveFailed = {}) =>
        LET s == LastRun.report
            o == LastRun.obs
            rej == RejectedBy(o.log)
        IN  /\ quar[LastRun.policy] \ o.quar0[LastRun.policy] = rej
            /\ o.root0 \ root = rej
            /\ AcceptedBy(o.log) \subseteq root
            /\ SeqToSet(s.moved_files) = rej
            /\ Len(s.moved_files) = Cardinality(rej)

C3_Witness ==
    /\ JustReturned("triage")
    /\ ~LastRun.dry_run
    /\ LastRun.obs.moveFailed = {}
    /\ Cardinality(RejectedBy(LastRun.obs.log)) >= 2
    /\ AcceptedBy(LastRun.obs.log) \ FailOpenBy(LastRun.obs.log) # {}
    /\ FailOpenBy(LastRun.obs.log) # {}
    /\ Len(LastRun.obs.calls) >= 2

\* where a file name is found: the root folder or a quarantine subfolder
Locations(f) ==
    {l \in {"root"} \cup Policies : IF l = "root" THEN f \in root ELSE f \in quar[l]}

\* C4: in every reachable state of any sequence of triage and restore runs,
\* every file present at the start is in exactly one of the root folder and the
\* quarantine subfolder, and no other file has appeared.
C4_ExactlyOneLocation ==
    /\ \A f \in dir0 : Cardinality(Locations(f)) = 1
    /\ root \cup UNION {quar[p] : p \in Policies} \subseteq dir0

C4_Witness ==
    /\ JustReturned("restore")
    /\ LastRun.report >= 1
    /\ Len(hist) >= 2
    /\ hist[Len(hist) - 1].op = "triage"
    /\ hist[Len(hist) - 1].obs.moveFailed # {}


PrevRun == hist[Len(hist) - 1]

\* a non-dry-run triage returned and the next call, a triage of the same
\* policy, has just returned too (no restore in between)
TriageTwice ==
    /\ JustReturned("triage")
    /\ Len(hist) >= 2
    /\ PrevRun.op = "triage"
    /\ ~PrevRun.raised
    /\ ~PrevRun.dry_run
    /\ PrevRun.policy = LastRun.policy

InTriage == pc \in {"call", "handle", "return"}

CleanTriage(h) ==
    /\ h.op = "triage" /\ ~h.raised /\ ~h.dry_run
    /\ h.obs.moveFailed = {}
    /\ FailOpenBy(h.obs.log) = {}
CleanRestore(h) ==
    /\ h.op = "restore" /\ ~h.raised
    /\ h.obs.moveFailed = {}

\* C6: restore after triage returns the root folder to its pre-triage file set
\* (for image names of any letter case), and a following triage reproduces the
\* partition of the first one.
C6_RoundTrip ==
    /\ (/\ JustReturned("restore")
        /\ Len(hist) >= 2
        /\ CleanTriage(PrevRun) /\ CleanRestore(LastRun)
        /\ PrevRun.policy = LastRun.policy)
          => root = PrevRun.obs.root0
    /\ (/\ JustReturned("triage")
        /\ Len(hist) >= 3
        /\ CleanTriage(hist[Len(hist) - 2]) /\ CleanRestore(PrevRun) /\ CleanTriage(LastRun)
        /\ hist[Len(hist) - 2].policy = PrevRun.policy
        /\ PrevRun.policy = LastRun.policy)
          => /\ root = PrevRun.obs.root0
             /\ quar = PrevRun.obs.quar0

\* C7: restore moves every image file of the quarantine subfolder back to the
\* root and returns the number it moved, without an oracle call; with no
\* quarantine subfolder it returns 0 and changes nothing.
C7_RestoreMovesEveryImage ==
    JustReturned("restore") =>
        LET o == LastRun.obs
            p == LastRun.policy
        IN  /\ (o.quarDir0[p] /\ o.moveFailed = {}) =>
                  /\ Images(quar[p]) = {}
                  /\ Images(o.quar0[p]) \subseteq root
                  /\ LastRun.report = Cardinality(Images(o.quar0[p]))
            /\ LastRun.report = Cardinality(root \ o.root0)
            /\ request_count = o.count0
            /\ current_model_idx = o.idx0
            /\ ~o.quarDir0[p] =>
                  /\ LastRun.report = 0
                  /\ root = o.root0 /\ quar = o.quar0 /\ quarDir = o.quarDir0

\* the counters the verdicts of a run call for
CountsOf(log) ==
    [accepted |-> Cardinality({i \in 1..Len(log) : ~Truthy(log[i].error) /\ log[i].acceptable}),
     rejected |-> Cardinality({i \in 1..Len(log) : ~Truthy(log[i].error) /\ ~log[i].acceptable}),
     errors   |-> Cardinality({i \in 1..Len(log) : Truthy(log[i].error)})]

\* C8: a dry run moves no file and creates no quarantine subfolder, and its
\* accept, reject and error counts are the function of the oracle answers that
\* also gives the counts of a non-dry run without move failure.
C8_DryRunChangesNothing ==
    JustReturned("triage") =>
        LET s == LastRun.report
            o == LastRun.obs
            c == CountsOf(o.log)
        IN  /\ LastRun.dry_run =>
                  /\ root = o.root0 /\ quar = o.quar0 /\ quarDir = o.quarDir0
                  /\ s.total > 0 => s.moved_files = <<>>
            /\ (LastRun.dry_run \/ o.moveFailed = {}) =>
                  /\ s.accepted = c.accepted
                  /\ s.rejected = c.rejected
                  /\ s.errors = c.errors
                  /\ Len(o.log) = s.total

C8_Witness ==
    /\ JustReturned("triage")
    /\ LastRun.dry_run
    /\ LastRun.report.rejected >= 2
    /\ LastRun.report.accepted >= 1
    /\ LastRun.report.errors >= 1
    /\ Len(LastRun.obs.calls) >= 2

\* C9: a failed move adds one error for that file and leaves the file in the
\* root; the run goes on through the rest of the batch and the later batches
\* (a returned run has handled every listed frame), and a run is only ever
\* aborted by _encode_image raising, never by a move.
C9_MoveFailureCounted ==
    /\ InTriage =>
          /\ obs.moveFailed \subseteq root
          /\ obs.moveFailed \cap SeqToSet(run.stats.moved_files) = {}
          /\ run.stats.errors = CountsOf(obs.log).errors + Cardinality(obs.moveFailed)
    /\ (JustReturned("triage") /\ LastRun.report.total > 0) =>
          /\ Len(LastRun.obs.log) = LastRun.report.total
          /\ [i \in 1..Len(LastRun.obs.log) |-> LastRun.obs.log[i].image_path]
                = sorted(Images(LastRun.obs.root0))
          /\ LastRun.obs.moveFailed \subseteq root
          /\ LastRun.report.errors
                = CountsOf(LastRun.obs.log).errors + Cardinality(LastRun.obs.moveFailed)
    /\ \A i \in 1..Len(hist) :
          hist[i].raised =>
              hist[i].obs.calls[Len(hist[i].obs.calls)].kind = "encode_error"

C9_Witness ==
    /\ JustReturned("triage")
    /\ LastRun.obs.moveFailed = {FrameName(1)}
    /\ FrameName(2) \in quar[LastRun.policy]
    /\ FrameName(BATCH_SIZE + 1) \in quar[LastRun.policy]
    /\ LastRun.report.errors = 1

\* the calls whose remote call returned (request_count += 1; _rotate_model())
ReturnedCalls(calls) ==
    Cardinality({i \in 1..Len(calls) : calls[i].kind \in {"ok", "bad_json", "bad_shape"}})

\* C10 as claimed: the cursor advances by one on every batch call, whatever
\* the call's outcome; 12 frames advance it by exactly 3 steps.
C10_RotatesEveryCall ==
    /\ InTriage =>
          current_model_idx = (obs.idx0 + Len(obs.calls)) % Len(model_names)
    /\ (JustReturned("triage") /\ LastRun.report.total = 12) =>
          /\ Len(LastRun.obs.calls) = 3
          /\ current_model_idx = (LastRun.obs.idx0 + 3) % Len(model_names)

\* C10 as amended: the cursor advances by one (wrapping) on every batch call
\* whose remote call returned, decodable or not, and stays when the remote call
\* raised; 12 frames make 3 batch calls (5, 5, 2 frames) and advance the cursor
\* by the number of those calls that returned.
C10_RotatesReturnedCalls ==
    /\ InTriage =>
          /\ current_model_idx
                = (obs.idx0 + ReturnedCalls(obs.calls)) % Len(model_names)
          /\ request_count = obs.count0 + ReturnedCalls(obs.calls)
    /\ JustReturned("triage") =>
          /\ current_model_idx
                = (LastRun.obs.idx0 + ReturnedCalls(LastRun.obs.calls)) % Len(model_names)
          /\ request_count = LastRun.obs.count0 + ReturnedCalls(LastRun.obs.calls)
          /\ LastRun.report.total = 12 =>
                /\ Len(LastRun.obs.calls) = 3
                /\ [i \in 1..3 |-> Len(LastRun.obs.calls[i].batch)] = <<5, 5, 2>>

C10_Witness ==
    /\ JustReturned("triage")
    /\ LastRun.report.total = 12
    /\ {LastRun.obs.calls[i].kind : i \in 1..Len(LastRun.obs.calls)}
          = {"raise", "bad_json", "ok"}
    /\ request_count = 2
    /\ current_model_idx = 0

(***************************************************************************)
(* Batching of the triage loop.                                            *)
(***************************************************************************)
\* ceil(n / b) for b > 0
CeilDiv(n, b) == (n + b - 1) \div b

\* the i-th of the successive BATCH_SIZE-long slices of a listing
Slice(listing, i) ==
    SubSeq(listing, (i - 1) * BATCH_SIZE + 1, Min(i * BATCH_SIZE, Len(listing)))

\* the adapter calls made so far are the first slices of the sorted listing,
\* one call per slice, each with at most one remote call
BatchedInOrder(calls, listing) ==
    /\ \A i \in 1..Len(listing), j \in 1..Len(listing) :
          i < j => StrLess(listing[i], listing[j])
    /\ Len(calls) <= CeilDiv(Len(listing), BATCH_SIZE)
    /\ \A i \in 1..Len(calls) :
          /\ calls[i].batch = Slice(listing, i)
          /\ calls[i].remote <= 1

\* C11: triage submits the frames in lexicographic filename order, in
\* successive batches of BATCH_SIZE frames (the last one possibly shorter), each
\* frame in exactly one batch; a run that returns its report has made exactly
\* ceil(n / BATCH_SIZE) adapter calls (12 frames: batches of 5, 5, 2); and no
\* batch costs more than one remote call.
C11_BatchesInOrder ==
    /\ InTriage => BatchedInOrder(obs.calls, sorted(Images(obs.root0)))
    /\ (pc = "idle" /\ hist # <<>> /\ LastRun.op = "triage") =>
          LET calls == LastRun.obs.calls
              listing == sorted(Images(LastRun.obs.root0))
              n == Len(listing)
          IN  /\ BatchedInOrder(calls, listing)
              /\ ~LastRun.raised =>
                    /\ LastRun.report.total = n
                    /\ Len(calls) = CeilDiv(n, BATCH_SIZE)
                    /\ \A f \in Images(LastRun.obs.root0) :
                          Cardinality({<<i, j>> \in (1..Len(calls)) \X (1..BATCH_SIZE) :
                                          /\ j <= Len(calls[i].batch)
                                          /\ calls[i].batch[j] = f}) = 1
                    /\ \A i \in 1..(Len(calls) - 1) : Len(calls[i].batch) = BATCH_SIZE
                    /\ n = 12 => [i \in 1..3 |-> Len(calls[i].batch)] = <<5, 5, 2>>

\* a 12-frame run returned after three calls, one of which raised
C11_Witness ==
    /\ JustReturned("triage")
    /\ ~LastRun.raised
    /\ LastRun.report.total = 12
    /\ Len(LastRun.obs.calls) = 3
    /\ LastRun.obs.calls[2].kind = "raise"
    /\ Len(LastRun.obs.calls[3].batch) = 2

(***************************************************************************)
(* The batch methods of the adapter, called directly.                      *)
(***************************************************************************)
\* a direct batch call has just returned its list
BatchReturned == JustReturned("batch")
\* its input list, its outcome and its result list
BatchInput == LastRun.report.image_paths
BatchOut == LastRun.report.results
BatchKind == IF LastRun.obs.calls = <<>> THEN "none" ELSE LastRun.obs.calls[1].kind
BatchMsg == LastRun.obs.calls[1].msg

\* C12: a batch call given n paths returns exactly min(n, BATCH_SIZE)
\* verdicts, the i-th one for the i-th input path, whatever the order of the
\* input and whatever happened to the remote call (success, short response,
\* undecodable response, raised error); paths beyond BATCH_SIZE get no verdict.
C12_MinVerdictsInInputOrder ==
    BatchReturned =>
        /\ Len(BatchOut) = Min(Len(BatchInput), BATCH_SIZE)
        /\ \A i \in 1..Len(BatchOut) : BatchOut[i].image_path = BatchInput[i]
        /\ \A i \in (BATCH_SIZE + 1)..Len(BatchInput) :
              \A j \in 1..Len(BatchOut) : BatchOut[j].image_path # BatchInput[i]

\* seven paths in descending order, a short response: five verdicts
C12_Witness ==
    /\ BatchReturned
    /\ Len(BatchInput) = BATCH_SIZE + 2
    /\ BatchInput[1] = FrameName(BATCH_SIZE + 2)
    /\ BatchKind = "ok"
    /\ LastRun.obs.calls[1].remote = 1
    /\ Len(BatchOut) = BATCH_SIZE

\* the remote call raised, or the response was no JSON text
LoudFailure == BatchReturned /\ BatchInput # <<>> /\ BatchKind \in {"raise", "bad_json"}

\* C13 as claimed: after a raised remote call or an unparseable response every
\* verdict of the batch is ACCEPT with confidence 0.0 and the failure reason.
C13_FailOpenWithConfidence ==
    LoudFailure =>
        \A i \in 1..Len(BatchOut) :
            /\ BatchOut[i].acceptable
            /\ BatchOut[i].confidence = "0.0"
            /\ BatchOut[i].error = BatchMsg

\* C13 as amended: after a raised remote call or an unparseable response every
\* verdict of the batch is ACCEPT and carries the failure reason (str(e), which
\* may be the empty text); the human-presence method adds confidence 0.0, the
\* suitability method's verdicts have no confidence field.
C13_FailOpenPerMethod ==
    LoudFailure =>
        /\ Len(BatchOut) = Min(Len(BatchInput), BATCH_SIZE)
        /\ \A i \in 1..Len(BatchOut) :
              /\ BatchOut[i].acceptable
              /\ BatchOut[i].error = BatchMsg
              /\ BatchOut[i].error # None
              /\ BatchOut[i].model_used = None
              /\ BatchOut[i].confidence
                    = (IF LastRun.policy = "human" THEN "0.0" ELSE None)

\* the suitability method failed open on a response that was no JSON text,
\* for images the oracle would have rejected
C13_Witness ==
    /\ LoudFailure
    /\ LastRun.policy = "suitable"
    /\ BatchKind = "bad_json"
    /\ Len(BatchOut) = BATCH_SIZE
    /\ \A i \in 1..Len(BatchOut) : ~oracle["suitable"][BatchOut[i].image_path]

\* the response array is shorter than the (truncated) batch
ShortResponse ==
    /\ BatchReturned
    /\ BatchKind = "ok"
    /\ LastRun.obs.calls[1].k < Min(Len(BatchInput), BATCH_SIZE)

\* C14: when the response array has k entries for a batch of n > k images, the
\* first k verdicts are the oracle's own (its answer for that image, no error,
\* the model that was asked) and the verdicts k+1..n are fail-open verdicts
\* (ACCEPT, reason "Missing in response"); every position has a verdict.
C14_ShortResponseTailFailsOpen ==
    ShortResponse =>
        LET k == LastRun.obs.calls[1].k
            n == Min(Len(BatchInput), BATCH_SIZE)
        IN  /\ Len(BatchOut) = n
            /\ \A i \in 1..n :
                  /\ BatchOut[i].image_path = BatchInput[i]
                  /\ i <= k =>
                        /\ BatchOut[i].acceptable
                              = oracle[LastRun.policy][BatchInput[i]]
                        /\ BatchOut[i].error = None
                        /\ BatchOut[i].model_used
                              = model_names[LastRun.obs.idx0 + 1]
                  /\ i > k =>
                        /\ BatchOut[i].acceptable
                        /\ BatchOut[i].error = "Missing in response"
                        /\ BatchOut[i].model_used = None

\* two answers for four images, the oracle rejecting all four
C14_Witness ==
    /\ ShortResponse
    /\ LastRun.obs.calls[1].k = 2
    /\ Len(BatchInput) = 4
    /\ \A i \in 1..4 : ~oracle[LastRun.policy][BatchInput[i]]
    /\ ~BatchOut[1].acceptable
    /\ BatchOut[3].acceptable

\* C15 as claimed: no failure met while a batch is handled (building the
\* request from the image files, the remote call, decoding the response) leaves
\* the adapter as an exception, so every triage run that ends has returned its
\* report.
C15_TriageAlwaysReturnsReport ==
    \A i \in 1..Len(hist) : hist[i].op = "triage" => ~hist[i].raised

(***************************************************************************)
(* Frame sampler.                                                          *)
(***************************************************************************)
InExtract == pc \in {"open", "read", "finish"}
ExtractReturned == JustReturned("extract") /\ LastRun.report.output_dir # None

\* the number a frame file name ends with (between "frame_" and ".jpg")
RECURSIVE NumOf(_)
NumOf(d) ==
    IF d = <<>> THEN 0
    ELSE NumOf(SubSeq(d, 1, Len(d) - 1)) * 10 + (IndexIn(Digits, d[Len(d)]) - 1)
Suffix(f) == NumOf(SubSeq(f, Len(FramePrefix) + 1, Len(f) - Len(JpgSuffix)))

\* frames returned by the first n calls of extract_frames_from_video
RECURSIVE FramesBefore(_, _)
FramesBefore(calls, n) ==
    IF n = 0 THEN 0 ELSE FramesBefore(calls, n - 1) + calls[n].frames

\* the files of dir are numbered 0..Len(log)-1 in the order they were written,
\* and every opened video started at the sum of the earlier videos' frames
NumberedWithoutGap(dir, o) ==
    /\ \A f \in dir : startswith(f, FramePrefix) /\ EndsWithOne(f, JpgSuffix)
    /\ {Suffix(f) : f \in dir} = 0..(Len(o.log) - 1)
    /\ Cardinality(dir) = Len(o.log)
    /\ \A j \in 1..Len(o.log) : Suffix(o.log[j].name) = j - 1
    /\ \A i \in 1..Len(o.calls) :
          o.calls[i].opened => o.calls[i].start = FramesBefore(o.calls, i - 1)

\* C16: extracting a list of videos into an initially empty folder numbers the
\* frame files 0..total-1 without gap or repeat, each video starting at the
\* running total of the frames written for the videos before it, whatever the
\* frame rates and whichever videos cannot be opened.
C16_ContiguousNumbering ==
    ExtractReturned =>
          /\ NumberedWithoutGap(root, LastRun.obs)
          /\ Len(LastRun.obs.calls) = Len(LastRun.report.video_paths)
          /\ LastRun.report.total_frames = Len(LastRun.obs.log)
          /\ {Suffix(f) : f \in root} = 0..(LastRun.report.total_frames - 1)

\* three videos, the second unopenable, the third starting at index 2
C16_Witness ==
    /\ ExtractReturned
    /\ Len(LastRun.obs.calls) = 3
    /\ LastRun.obs.calls[1].frames = 2
    /\ ~LastRun.obs.calls[2].opened
    /\ LastRun.obs.calls[3].start = 2
    /\ LastRun.obs.calls[3].frames = 3
    /\ frame_filename(4) \in root

\* read positions at which the i-th video had a frame written, in order
PositionsOf(o, i) ==
    LET idx == {j \in 1..Len(o.log) : o.log[j].video = i}
    IN  {o.log[j].position : j \in idx}

\* every opened video used the step Step gives for it and had the frames at
\* the multiples of that step written
SteppedBy(Step(_, _), o, video_paths, sec) ==
    \A i \in 1..Len(o.calls) :
        o.calls[i].opened =>
            LET v == video_paths[i]
                step == Step(v.fps, sec)
            IN  /\ o.calls[i].step = step
                /\ PositionsOf(o, i) = {k \in 0..(v.frames - 1) : k % step = 0}
                /\ o.calls[i].frames = Cardinality(PositionsOf(o, i))
                /\ v.fps <= 0 => step = 1 /\ o.calls[i].frames = v.frames

\* max(1, round(fps * sec)) and max(1, int(fps * sec)), fps and sec in hundredths
StepRounded(fps, sec) ==
    LET r == RoundDiv(fps * sec, 10000) IN IF r >= 1 THEN r ELSE 1
StepTruncated(fps, sec) ==
    IF fps * sec >= 10000 THEN (fps * sec) \div 10000 ELSE 1

\* C17 as claimed: the step is max(1, round(rate * interval)), the frames
\* written are those at read positions 0, step, 2*step, ..., a rate <= 0 gives
\* step 1, and the returned count is the number of frames written.
C17_StepIsRounded ==
    ExtractReturned =>
        SteppedBy(StepRounded, LastRun.obs, LastRun.report.video_paths,
                  FRAME_INTERVAL_SECONDS)

\* C17 as amended: the step is max(1, int(rate * interval)), int cutting the
\* fraction off; the frames written are those at read positions 0, step,
\* 2*step, ..., a rate <= 0 gives step 1 (every frame written), and the
\* returned count is the number of frames written.
C17_StepIsTruncated ==
    ExtractReturned =>
        SteppedBy(StepTruncated, LastRun.obs, LastRun.report.video_paths,
                  FRAME_INTERVAL_SECONDS)

\* a 14 fps video of three frames (rate * interval = 2.8): positions 0 and 2
\* written; and a video of unknown rate, every frame written
C17_Witness ==
    /\ ExtractReturned
    /\ Len(LastRun.obs.calls) = 2
    /\ LastRun.report.video_paths[1] = [openable |-> TRUE, fps |-> 1400, frames |-> 3]
    /\ LastRun.obs.calls[1].step = 2
    /\ PositionsOf(LastRun.obs, 1) = {0, 2}
    /\ LastRun.report.video_paths[2].fps = 0
    /\ LastRun.report.video_paths[2].openable
    /\ LastRun.obs.calls[2].frames = 3

\* the videos of a list that open, in order
RECURSIVE Openable(_)
Openable(video_paths) ==
    IF video_paths = <<>> THEN <<>>
    ELSE (IF Head(video_paths).openable THEN <<Head(video_paths)>> ELSE <<>>)
         \o Openable(Tail(video_paths))

\* first index and frame count of every video of a list in which all open
RECURSIVE Numbering(_, _, _)
Numbering(video_paths, sec, first) ==
    IF video_paths = <<>> THEN <<>>
    ELSE LET v == Head(video_paths)
             n == CeilDiv(v.frames, StepTruncated(v.fps, sec))
         IN  <<[start |-> first, frames |-> n]>>
             \o Numbering(Tail(video_paths), sec, first + n)

\* first index and frame count of the opened videos of a finished extraction
RECURSIVE OpenedCalls(_)
OpenedCalls(calls) ==
    IF calls = <<>> THEN <<>>
    ELSE (IF Head(calls).opened
          THEN <<[start |-> Head(calls).start, frames |-> Head(calls).frames]>>
          ELSE <<>>)
         \o OpenedCalls(Tail(calls))

\* C18: a video that cannot be opened returns 0 and writes no file, the
\* extraction goes on with the remaining videos, and these are numbered as if
\* the unopenable video had not been in the list.
C18_UnopenableSkipped ==
    /\ InExtract =>
          \A j \in 1..Len(obs.log) : run.video_paths[obs.log[j].video].openable
    /\ ExtractReturned =>
          LET o == LastRun.obs
              video_paths == LastRun.report.video_paths
          IN  /\ Len(o.calls) = Len(video_paths)
              /\ \A i \in 1..Len(video_paths) :
                    ~video_paths[i].openable =>
                        /\ ~o.calls[i].opened
                        /\ o.calls[i].frames = 0
                        /\ PositionsOf(o, i) = {}
              /\ root = {o.log[j].name : j \in 1..Len(o.log)}
              /\ OpenedCalls(o.calls)
                    = Numbering(Openable(video_paths), FRAME_INTERVAL_SECONDS, 0)

\* an unopenable video between two that open: the third starts where the
\* first stopped
C18_Witness ==
    /\ ExtractReturned
    /\ Len(LastRun.obs.calls) = 3
    /\ LastRun.obs.calls[1].opened /\ LastRun.obs.calls[1].frames = 3
    /\ ~LastRun.obs.calls[2].opened /\ LastRun.obs.calls[2].frames = 0
    /\ LastRun.obs.calls[3].opened /\ LastRun.obs.calls[3].start = 3
    /\ LastRun.obs.calls[3].frames = 1
    /\ Cardinality(root) = 4

(***************************************************************************)
(* Session key.                                                            *)
(***************************************************************************)
\* the get_video_prefix calls made, by the form of their input
CameraCalls == {i \in 1..Len(hist) : hist[i].op = "prefix"
                                       /\ hist[i].report.input.kind = "camera"}
SegmentCalls == {i \in 1..Len(hist) : hist[i].op = "prefix"
                                        /\ hist[i].report.input.kind = "segments"}

\* the text of a camera-form name up through the camera index
ThroughIndex(inp) == inp.source \o inp.marker \o <<" ">> \o inp.index

\* C19: two names <source><marker> <index>_<14 digits>_<14 digits>.<ext> with
\* the same source, marker and index get the same session key, the text up
\* through the camera index, whatever their timestamps are.
C19_SameKeyWhateverTimestamps ==
    \A i \in CameraCalls, j \in CameraCalls :
        LET a == hist[i].report
            b == hist[j].report
        IN  ThroughIndex(a.input) = ThroughIndex(b.input) =>
                /\ a.key = b.key
                /\ a.key = ThroughIndex(a.input)

\* two recordings of "B Camera 1_IPCamera 07" with different start and end
\* times
C19_Witness ==
    /\ Len(hist) = 2
    /\ CameraCalls = {1, 2}
    /\ hist[1].report.input.source = <<"B", " ", "C", "a", "m", "e", "r", "a", " ", "1", "_">>
    /\ hist[1].report.input.marker = <<"I", "P", "C", "a", "m", "e", "r", "a">>
    /\ ThroughIndex(hist[1].report.input) = ThroughIndex(hist[2].report.input)
    /\ hist[1].report.input.ts1 # hist[2].report.input.ts1
    /\ hist[1].report.input.ts2 # hist[2].report.input.ts2
    /\ hist[1].report.filename # hist[2].report.filename
    /\ hist[1].report.key = hist[2].report.key

\* the positions of the 14-digit segments of a name without camera marker
StampPositions(parts) == {k \in 1..Len(parts) : Len(parts[k]) = 14 /\ AllDigits(parts[k])}
FirstStamp(parts) == CHOOSE k \in StampPositions(parts) : \A j \in StampPositions(parts) : k <= j

\* C20 as claimed: the key of a name without camera marker is the join of the
\* segments before its first 14-digit segment, wherever that segment is, the
\* first position included; without such a segment it is the whole name
\* without extension.
C20_SegmentsBeforeFirstStamp ==
    \A i \in SegmentCalls :
        LET parts == hist[i].report.input.parts
        IN  hist[i].report.key
              = (IF StampPositions(parts) = {} THEN join(parts)
                 ELSE join(SubSeq(parts, 1, FirstStamp(parts) - 1)))

\* C20 as amended: the key of a name without camera marker is the join of the
\* segments before its first 14-digit segment when that segment is not the
\* first one; when the first segment is the 14-digit one, or when no segment
\* is, the key is the whole name without extension.
C20_SegmentsBeforeLaterStamp ==
    \A i \in SegmentCalls :
        LET parts == hist[i].report.input.parts
        IN  hist[i].report.key
              = (IF StampPositions(parts) = {} \/ FirstStamp(parts) = 1
                 THEN join(parts)
                 ELSE join(SubSeq(parts, 1, FirstStamp(parts) - 1)))

\* a name that starts with its timestamp keeps all three segments; the key
\* is not the empty text
C20_Witness ==
    /\ SegmentCalls = {1}
    /\ Len(hist[1].report.input.parts) = 3
    /\ StampPositions(hist[1].report.input.parts) # {}
    /\ FirstStamp(hist[1].report.input.parts) = 1
    /\ hist[1].report.key = join(hist[1].report.input.parts)
    /\ hist[1].report.key # <<>>

(***************************************************************************)
(* Session grouping.                                                       *)
(***************************************************************************)
CollectReturned == JustReturned("collect")
CollectResult == LastRun.report.result

\* the entries of the listing the grouping is about: .mp4 in either
\* case, same session key as the reference
SameSession(listing, reference_filename) ==
    {f \in listing :
        /\ Len(f) >= 4
        /\ lower(SubSeq(f, Len(f) - 3, Len(f))) = Mp4
        /\ get_video_prefix(f) = get_video_prefix(reference_filename)}

\* a list of paths in ascending order of their file names
SortedByName(paths) ==
    \A i \in 1..Len(paths), j \in 1..Len(paths) :
        i < j => StrLess(basename(paths[i]), basename(paths[j]))

\* C21 as claimed: the result is exactly the .mp4 entries (either case)
\* of the listing whose session key equals the reference's, in ascending
\* order of file name; an empty or missing directory, or one without a match,
\* gives the empty list.
C21_ExactlyTheSession ==
    CollectReturned =>
        LET r == LastRun.report
        IN  /\ {basename(CollectResult[i]) : i \in 1..Len(CollectResult)}
                  = (IF r.found THEN SameSession(r.listing, r.reference_filename) ELSE {})
            /\ Len(CollectResult) = Cardinality(SeqToSet(CollectResult))
            /\ SortedByName(CollectResult)

\* C21 as amended: as claimed when the reference's session key is not the
\* empty text; a reference whose session key is the empty text gives the
\* empty list whatever the directory holds.
C21_ExactlyTheSessionOfNamedKey ==
    CollectReturned =>
        LET r == LastRun.report
            keyed == get_video_prefix(r.reference_filename) # <<>>
        IN  /\ {basename(CollectResult[i]) : i \in 1..Len(CollectResult)}
                  = (IF r.found /\ keyed
                     THEN SameSession(r.listing, r.reference_filename) ELSE {})
            /\ Len(CollectResult) = Cardinality(SeqToSet(CollectResult))
            /\ SortedByName(CollectResult)
            /\ \A i \in 1..Len(CollectResult) :
                  CollectResult[i] = source_dir \o <<"/">> \o basename(CollectResult[i])

\* both recordings of camera 7 are returned, the .MP4 one included, from a
\* directory that holds every modelled entry
C21_Witness ==
    /\ CollectReturned
    /\ LastRun.report.listing = SourceNames
    /\ LastRun.report.reference_filename = Recording(1)
    /\ Len(CollectResult) = 2
    /\ basename(CollectResult[1]) = Recording(1)
    /\ basename(CollectResult[2]) = Recording(2)

(***************************************************************************)
(* image_analyzer.py.                                                      *)
(***************************************************************************)
\* a run in which every batch call was answered in full
FullyAnswered(o) ==
    \A i \in 1..Len(o.calls) :
        o.calls[i].kind = "ok" /\ o.calls[i].k = Len(o.calls[i].batch)

\* C22 as claimed: analyze_and_filter_frames, not in dry-run mode, moves every
\* scanned frame the oracle judges unsuitable into not-suitable/ and counts it
\* in not_suitable (here: when the oracle answered for every frame and no
\* move failed).
C22_FilterMovesUnsuitable ==
    (/\ JustReturned("triage")
     /\ LastRun.policy = "filter"
     /\ ~LastRun.dry_run
     /\ FullyAnswered(LastRun.obs)
     /\ LastRun.obs.moveFailed = {}) =>
        LET unsuitable == {f \in Images(LastRun.obs.root0) : ~oracle["suitable"][f]}
        IN  /\ unsuitable \subseteq quar["suitable"]
            /\ unsuitable \cap root = {}
            /\ LastRun.report.rejected = Cardinality(unsuitable)

(***************************************************************************)
(* Frame names and the order of triage.                                    *)
(***************************************************************************)
\* C23 as claimed: of two frames the sampler wrote, the one with the smaller
\* index has the name that sorts first, so the sorted listing of triage is in
\* numeric order, whatever the number of frames.
C23_NameOrderIsIndexOrder ==
    \A a \in 1..Len(hist), b \in 1..Len(hist) :
        (/\ hist[a].op = "name" /\ hist[b].op = "name"
         /\ hist[a].report.index < hist[b].report.index) =>
            /\ StrLess(hist[a].report.name, hist[b].report.name)
            /\ sorted({hist[a].report.name, hist[b].report.name})
                  = <<hist[a].report.name, hist[b].report.name>>

\* C23 as amended: of two frames the sampler wrote, the one with the smaller
\* index has the name that sorts first when both indices are below 100000
\* (five digits) or have the same number of digits.
C23_NameOrderBelowSixDigits ==
    \A a \in 1..Len(hist), b \in 1..Len(hist) :
        (/\ hist[a].op = "name" /\ hist[b].op = "name"
         /\ hist[a].report.index < hist[b].report.index
         /\ \/ hist[b].report.index < Pow10(5)
            \/ \E d \in 1..(MaxDigits + 1) :
                  /\ Pow10(d - 1) <= hist[a].report.index
                  /\ hist[b].report.index < Pow10(d)) =>
            /\ StrLess(hist[a].report.name, hist[b].report.name)
            /\ sorted({hist[a].report.name, hist[b].report.name})
                  = <<hist[a].report.name, hist[b].report.name>>

\* frame 9 and frame 10000: frame_00009.jpg before frame_10000.jpg
C23_Witness ==
    /\ Len(hist) = 2
    /\ hist[1].op = "name" /\ hist[2].op = "name"
    /\ hist[1].report.index = 10000
    /\ hist[2].report.index = 9
    /\ hist[2].report.name
          = <<"f", "r", "a", "m", "e", "_", "0", "0", "0", "0", "9", ".", "j", "p", "g">>
    /\ StrLess(hist[2].report.name, hist[1].report.name)

(***************************************************************************)
(* Order of the events of one triage run.                                  *)
(***************************************************************************)
\* the frames of the batches submitted so far, in order
RECURSIVE Submitted(_)
Submitted(calls) ==
    IF calls = <<>> THEN <<>> ELSE Head(calls).batch \o Submitted(Tail(calls))

\* C24: within one triage run a file is moved only after the adapter call for
\* its batch has returned and its own verdict has been handled; verdicts are
\* handled in the order of submission; and the call for the next batch is
\* issued only when every verdict of the batches before it has been handled
\* (counted and, if rejected, moved or recorded as a move failure).
C24_BatchesInSequence ==
    InTriage =>
        LET sub == Submitted(obs.calls)
            handled == {obs.log[i].image_path : i \in 1..Len(obs.log)}
            movedNow == obs.root0 \ root
            rejected == {obs.log[i].image_path : i \in
                            {j \in 1..Len(obs.log) : MoveAttempted(obs.log[j], run.dry_run)}}
        IN  /\ Len(obs.log) <= Len(sub)
            /\ \A i \in 1..Len(obs.log) : obs.log[i].image_path = sub[i]
            /\ movedNow \subseteq handled
            /\ movedNow \cup obs.moveFailed = rejected
            /\ movedNow \cap obs.moveFailed = {}
            /\ pc \in {"call", "return"} => Len(obs.log) = Len(sub)
            /\ pc = "handle" =>
                  /\ obs.calls # <<>>
                  /\ Len(obs.log) < Len(sub)
                  /\ Len(obs.log) >= Len(sub) - Len(obs.calls[Len(obs.calls)].batch)
            /\ run.stats.accepted + run.stats.rejected
                  + Cardinality({i \in 1..Len(obs.log) : Truthy(obs.log[i].error)})
                  = Len(obs.log)

\* the second batch is about to be submitted: the five verdicts of the first
\* are handled, one frame moved and one move failed
C24_Witness ==
    /\ pc = "call"
    /\ Len(obs.calls) = 1
    /\ Len(obs.log) = BATCH_SIZE
    /\ Cardinality(obs.root0 \ root) = 1
    /\ Cardinality(obs.moveFailed) = 1
    /\ Len(run.all_frames) > BATCH_SIZE

(***************************************************************************)
(* A stopped run and the run after it.                                     *)
(***************************************************************************)
\* the frames a run moved: its handled verdicts that reject without error
MovedBy(h) ==
    {h.obs.log[i].image_path : i \in
        {j \in 1..Len(h.obs.log) : MoveAttempted(h.obs.log[j], h.dry_run)}}

\* the partition an uninterrupted run leaves: the frames the oracle rejects
\* in no-human/, all else in the root
RejectedByOracle == {f \in Images(dir0) : ~oracle["human"][f]}
PartitionDone ==
    /\ quar["human"] = RejectedByOracle
    /\ root = dir0 \ RejectedByOracle
    /\ quar["suitable"] = {}

\* a run was stopped and the run made after it has returned
Resumed ==
    /\ JustReturned("triage")
    /\ Len(hist) = 2
    /\ hist[1].op = "triage" /\ hist[1].raised

\* C25: when a triage run is stopped at any point and triage is run again
\* from the top, with an oracle that answers the same for the same image, no
\* file is moved twice and the final partition into root and quarantine is the
\* one an uninterrupted run produces.
C25_ResumeReachesSamePartition ==
    /\ (JustReturned("triage") /\ Len(hist) = 1) => PartitionDone
    /\ Resumed =>
          /\ PartitionDone
          /\ MovedBy(hist[1]) \cap MovedBy(hist[2]) = {}
          /\ MovedBy(hist[1]) \cup MovedBy(hist[2]) = RejectedByOracle
          /\ \A i \in 1..Len(hist[2].obs.log) :
                hist[2].obs.log[i].image_path \notin MovedBy(hist[1])

\* stopped between two results of the first batch after one frame was moved;
\* the second run moved the other two rejected frames
C25_Witness ==
    /\ Resumed
    /\ hist[1].report.stopped = "handle"
    /\ Len(hist[1].obs.calls) = 1
    /\ Cardinality(MovedBy(hist[1])) = 1
    /\ Cardinality(MovedBy(hist[2])) = 2
    /\ Len(hist[2].obs.calls) = 1

\* C26: on every client instance, after any sequence of analyze_single_image
\* and batch calls, current_model_idx is a valid index into model_names and
\* equals request_count modulo their number, request_count being the number of
\* that instance's remote calls that returned; so no instance's cursor depends
\* on calls made on the other.
C26_CursorFollowsCount ==
    \A inst \in Clients :
        LET me == ClientOf(inst)
        IN  /\ me.current_model_idx \in 0..(Len(model_names) - 1)
            /\ me.request_count = Tally.returned[inst]
            /\ me.current_model_idx = me.request_count % Len(model_names)

C26_Witness ==
    /\ Tally.returned[1] = 3
    /\ Tally.attempts[1] > 3
    /\ Tally.returned[2] = 1
    /\ ClientOf(1).request_count = 3
    /\ ClientOf(2).request_count = 1

\* the verdicts of the last run that carry an error reason (the "error" key is
\* set), as positions in the order they were handled
ErrorVerdicts(o) == {i \in 1..Len(o.log) : o.log[i].error # None}

\* C27 as claimed: a frame whose verdict carries an error reason is counted
\* once as an error and is never moved, so the report's error count is the
\* number of such verdicts plus the failed moves.
C27_ErrorVerdictCountedAndKept ==
    JustReturned("triage") =>
        LET o == LastRun.obs
            s == LastRun.report
        IN  /\ s.errors = Cardinality(ErrorVerdicts(o)) + Cardinality(o.moveFailed)
            /\ \A i \in ErrorVerdicts(o) :
                  /\ o.log[i].image_path \in root
                  /\ o.log[i].image_path \notin SeqToSet(s.moved_files)

\* C28 as claimed: whatever the output folder held before, no frame is written
\* under a name that is already in the folder: not a name that was there when
\* the call started, and not a name written earlier in the call.
C28_NoFrameOverwritten ==
    \A i \in 1..Len(obs.log) :
        /\ obs.log[i].name \notin obs.root0
        /\ \A j \in 1..(i - 1) : obs.log[j].name # obs.log[i].name

\* the quarantine subfolders of the policies other than p are as they were
\* when the running (o = obs) or the last (o = LastRun.obs) call started
OthersUntouched(p, o) == \A q \in Policies \ {p} : quar[q] = o.quar0[q]

\* C29: with both policies used on one folder, in every state of any sequence
\* of the two triages and the two restores every file is in exactly one of the
\* root, no-human/ and not-suitable/; a triage lists only names of the root and
\* changes only its own quarantine subfolder; a restore lists and moves only
\* names of its own quarantine subfolder.
C29_PoliciesLayer ==
    /\ \A f \in dir0 : Cardinality(Locations(f)) = 1
    /\ root \cup UNION {quar[p] : p \in Policies} \subseteq dir0
    /\ pc \in {"call", "handle", "return"} =>
          /\ SeqToSet(run.all_frames) \subseteq obs.root0
          /\ OthersUntouched(run.policy, obs)
          /\ quar[run.policy] \ obs.quar0[run.policy] \subseteq SeqToSet(run.all_frames)
    /\ pc = "restore" =>
          /\ run.files \subseteq quar[run.policy]
          /\ OthersUntouched(run.policy, obs)
          /\ root \ obs.root0 \subseteq obs.quar0[run.policy]
    /\ (pc = "idle" /\ hist # <<>>) =>
          /\ OthersUntouched(LastRun.policy, LastRun.obs)
          /\ LastRun.op = "restore" =>
                root \ LastRun.obs.root0 \subseteq LastRun.obs.quar0[LastRun.policy]

C29_Witness ==
    /\ JustReturned("restore")
    /\ Len(hist) = 2
    /\ hist[1].op = "triage"
    /\ hist[1].policy = "human"
    /\ hist[1].obs.quar0["human"] # LastRun.obs.quar0["human"]
    /\ LastRun.policy = "suitable"
    /\ LastRun.report >= 1
    /\ LastRun.obs.quar0["human"] # {}
    /\ quar["human"] = LastRun.obs.quar0["human"]
    /\ quar["suitable"] # LastRun.obs.quar0["suitable"]

\* the new names of a list of renames are pairwise distinct
DistinctNewNames(renames) ==
    \A i, j \in 1..Len(renames) : i # j => renames[i].new # renames[j].new

\* C30 as claimed: for any folder and any durations, the new names of
\* preview_renames are pairwise distinct, and after execute_renames the folder
\* holds as many video files as before.
C30_NoVideoLost ==
    JustReturned("rename") =>
        /\ DistinctNewNames(LastRun.report.renames)
        /\ Cardinality(VideoFiles(root)) = Cardinality(VideoFiles(LastRun.obs.root0))


====
